---- MODULE Spec2Model ----
(***************************************************************************)
(* A model of the vlong multiple-precision integer class (src/vlong.h,     *)
(* src/vlong.cpp).  A vlong object is a record [s, nu, d]: the sign, the   *)
(* number of used digits and the digit buffer; Len(d) is the allocated     *)
(* size na, and d = << >> is the NULL buffer of a fresh object.  Digits    *)
(* are BiD bits wide; every udig_t value is kept modulo B and every        *)
(* uwrd_t value modulo B*B, as the C++ types do.  A member function        *)
(* X.f(a, ...) is the operator f(v, x, ...) of the receiver v and the      *)
(* arguments; it yields [ret, X]: the return code and the receiver after   *)
(* the call.  Where the code asks whether an argument is the receiver      *)
(* itself (&a == this), the operator takes that answer as a parameter.     *)
(***************************************************************************)
EXTENDS Integers, Sequences, FiniteSets, TLC

\* pc    "init" before the call, "done" after it returned
\* op    the member function that was called; alias: which arguments were
\*       the receiver itself ("none", "a", "b", "ab")
\* X     the receiver (after the call: the object the call wrote)
\* a, b, n, k   the vlong arguments and the scalar argument, as passed
\* r, rd the vlong and the sdig_t remainder objects handed to Div
\* ret   the return value;  junk: what a read outside a buffer yields
\* depth the nested calls in progress;  gst: the locals of a GCDExtBin call
\*       in progress;  buf: the caller's character or byte buffer
VARIABLES pc, op, alias, X, a, b, n, k, r, rd, ret, junk, depth, gst, buf

vars ==
    <<pc, op, alias, X, a, b, n, k, r, rd, ret, junk, depth, gst, buf>>

\* ------------------------------------------------------------------ bounds
\* bits per digit (the reference configuration has 32)
BiD == 4
\* the reference configuration allows 1024 digits
VLONG_MAX_DIGITS == 12
\* the reference configuration switches to Karatsuba at 80 digits
VLONG_KARATSUBA_MUL_CUTOFF == 2
\* operands of the checked calls have at most MaxLimbs digits
MaxLimbs == 3
\* nested calls the stack has room for
MaxDepth == 3

\* --------------------------------------------------------------- constants
\* sizeof(udig_t) of the reference configuration
CiD == 4
\* the call does not return (a wild memset or a division by zero brings
\* the process down)
Crashed == 0 - 1
VLONG_SUCCESS == 0
VLONG_ERR_MEMORY_EXEED == 10
VLONG_ERR_BAD_ARG_1 == 21
VLONG_ERR_BAD_ARG_4 == 24
VLONG_ERR_OUT_OF_RANGE == 25
VLONG_ERR_DIV_BY_ZERO == 26
VLONG_ERR_NEGATIVE_ARG == 27
VLONG_ERR_NO_INVERSE == 28
MP_GT == 1
MP_LT == -1
MP_EQ == 0
MP_NEG == -1
MP_ZPOS == 1

B == 2 ^ BiD
W == B * B
MP_MASK_DIG == B - 1

\* ---------------------------------------------------- machine arithmetic
\* (udig_t) x
ToU(x) == x % B
\* (uwrd_t) x
ToW(x) == x % W
\* (sdig_t) x
ToSD(x) == IF (x % B) >= B \div 2 THEN (x % B) - B ELSE x % B
\* (swrd_t) x
ToSW(x) == IF (x % W) >= W \div 2 THEN (x % W) - W ELSE x % W

Min(x, y) == IF x < y THEN x ELSE y
Max(x, y) == IF x > y THEN x ELSE y

RECURSIVE BitAnd(_, _)
BitAnd(x, y) ==
    IF x = 0 \/ y = 0 THEN 0
    ELSE (x % 2) * (y % 2) + 2 * BitAnd(x \div 2, y \div 2)

RECURSIVE BitOr(_, _)
BitOr(x, y) ==
    IF x = 0 THEN y
    ELSE IF y = 0 THEN x
    ELSE Max(x % 2, y % 2) + 2 * BitOr(x \div 2, y \div 2)

\* ------------------------------------------------------- digit buffers
Zeros(m) == [i \in 1..m |-> 0]

\* d[i], 0-based; a read outside the allocation yields an arbitrary digit
Rd(v, i) == IF i >= 0 /\ i < Len(v.d) THEN v.d[i + 1] ELSE junk

\* d[i] = x, 0-based
Wr(d, i, x) == [j \in 1..Len(d) |-> IF j = i + 1 THEN x ELSE d[j]]

\* memset(d + from, 0, cnt digits)
MemZero(d, from, cnt) ==
    [j \in 1..Len(d) |-> IF j > from /\ j <= from + cnt THEN 0 ELSE d[j]]

\* memcpy(dst + at, src + from, cnt digits)
MemCpy(dst, at, src, from, cnt) ==
    [j \in 1..Len(dst) |->
        IF j > at /\ j <= at + cnt THEN src[j - at + from] ELSE dst[j]]

\* ------------------------------------------------------ control flow
Ok(v) == [ret |-> VLONG_SUCCESS, X |-> v]
Err(e, v) == [ret |-> e, X |-> v]

\* CHECK(call); rest: return the error of the call, or go on with the
\* object the call wrote
Bind(res, F(_)) == IF res.ret # VLONG_SUCCESS THEN res ELSE F(res.X)

\* CHECK(call) where the receiver the caller returns on an error is keep
BindOr(res, keep, F(_)) ==
    IF res.ret # VLONG_SUCCESS THEN Err(res.ret, keep) ELSE F(res.X)

\* CHECK(call) in a function whose result is a record of another shape:
\* on an error the function returns keep with the error code
Try(res, keep, F(_)) ==
    IF res.ret # VLONG_SUCCESS THEN [keep EXCEPT !.ret = res.ret] ELSE F(res.X)

\* a local variable
With(val, F(_)) == F(val)

\* ------------------------------------------------------ memory management
vlong_Init == [s |-> MP_ZPOS, nu |-> 0, d |-> << >>]

Grow(v, m) ==
    IF Len(v.d) >= m
    THEN Ok([v EXCEPT !.d = IF v.nu < Len(v.d)
                            THEN MemZero(v.d, v.nu, Len(v.d) - v.nu)
                            ELSE v.d])
    ELSE IF m > VLONG_MAX_DIGITS THEN Err(VLONG_ERR_MEMORY_EXEED, v)
    ELSE Ok([v EXCEPT !.d = [j \in 1..m |-> IF j <= v.nu THEN v.d[j] ELSE 0]])

\* if (na < m) CHECK( Grow(m) )
GrowIfSmaller(v, m) == IF Len(v.d) < m THEN Grow(v, m) ELSE Ok(v)

Copy(v, w) ==
    Bind(GrowIfSmaller(v, w.nu), LAMBDA g :
    Ok([s |-> w.s, nu |-> w.nu, d |-> MemCpy(g.d, 0, w.d, 0, w.nu)]))

\* the receiver takes over the buffer of the temporary w; the sign stays
prvMovePtr(v, w) == [s |-> v.s, nu |-> w.nu, d |-> w.d]

\* the index (1-based) of the highest non-zero digit among the first m
RECURSIVE TopDigit(_, _)
TopDigit(d, m) == IF m = 0 \/ d[m] # 0 THEN m ELSE TopDigit(d, m - 1)

Clamp(v) ==
    With(TopDigit(v.d, v.nu), LAMBDA m :
    [s |-> IF m = 0 THEN MP_ZPOS ELSE v.s, nu |-> m, d |-> v.d])

SetZero(v) == [s |-> 1, nu |-> 0, d |-> MemZero(v.d, 0, v.nu)]

GetInt(v) == IF v.nu = 0 THEN 0 ELSE v.d[1]

\* SetValue(sdig_t)
SetValue(v, x) ==
    IF x = 0
    THEN Ok([s |-> 1, nu |-> 0, d |-> Zeros(Len(v.d))])
    ELSE Bind(IF Len(v.d) > 1 THEN Ok([v EXCEPT !.d = Zeros(Len(v.d))])
              ELSE Grow(v, 1), LAMBDA g :
         Ok([s |-> IF x > 0 THEN MP_ZPOS ELSE MP_NEG,
             nu |-> 1,
             d |-> Wr(g.d, 0, IF x > 0 THEN x ELSE ToU(-x))]))

isZero(v) == v.nu = 0

\* the receiver with its sign field assigned
WithSign(v, sg) == [v EXCEPT !.s = sg]

\* ------------------------------------------------------------ comparisons
\* Compare(sdig_t)
Compare_sdig(v, x) ==
    IF isZero(v) THEN (IF x = 0 THEN MP_EQ ELSE IF x > 0 THEN MP_GT ELSE MP_LT)
    ELSE IF v.s = MP_NEG /\ x >= 0 THEN MP_LT
    ELSE IF v.s = MP_ZPOS /\ x <= 0 THEN MP_LT
    ELSE IF v.nu > 1 THEN (IF v.s = MP_NEG THEN MP_LT ELSE MP_GT)
    ELSE IF x > 0
         THEN (IF Rd(v, 0) > x THEN MP_GT
               ELSE IF Rd(v, 0) < x THEN MP_LT ELSE MP_EQ)
         ELSE (IF Rd(v, 0) > ToSD(-x) THEN MP_LT
               ELSE IF Rd(v, 0) < ToSD(-x) THEN MP_GT ELSE MP_EQ)

\* for (i = a.nu - 1; i >= 0; i--) of CompareMag
RECURSIVE CompareDigits(_, _, _)
CompareDigits(v, w, i) ==
    IF i < 0 THEN MP_EQ
    ELSE IF Rd(v, i) > Rd(w, i) THEN MP_GT
    ELSE IF Rd(v, i) < Rd(w, i) THEN MP_LT
    ELSE CompareDigits(v, w, i - 1)

CompareMag(v, w) ==
    IF v.nu > w.nu THEN MP_GT
    ELSE IF v.nu < w.nu THEN MP_LT
    ELSE CompareDigits(v, w, v.nu - 1)

Compare(v, w) ==
    IF v.nu = 0 /\ w.nu = 0 THEN MP_EQ
    ELSE IF v.s # w.s THEN (IF v.s < 0 THEN MP_LT ELSE MP_GT)
    ELSE IF v.s < 0 THEN CompareMag(w, v)
    ELSE CompareMag(v, w)

\* ------------------------------------------------------ bitwise operations
RECURSIVE BitLen(_)
BitLen(x) == IF x = 0 THEN 0 ELSE 1 + BitLen(x \div 2)

GetNumBits(v) ==
    IF isZero(v) THEN 0
    ELSE (IF v.nu > 1 THEN BiD * (v.nu - 1) ELSE 0) + BitLen(Rd(v, v.nu - 1))

prvLeftShiftDigits(v, digs) ==
    IF digs = 0 THEN Ok(v)
    ELSE Bind(GrowIfSmaller(v, v.nu + digs), LAMBDA g :
         Ok([s |-> v.s, nu |-> v.nu + digs,
             d |-> [j \in 1..Len(g.d) |->
                      IF j <= digs THEN 0
                      ELSE IF j <= v.nu + digs THEN g.d[j - digs]
                      ELSE g.d[j]]]))

prvRightShiftDigits(v, digs) ==
    IF digs = 0 THEN v
    ELSE IF digs >= v.nu THEN SetZero(v)
    ELSE [s |-> v.s, nu |-> v.nu - digs,
          d |-> [j \in 1..Len(v.d) |->
                   IF j <= v.nu - digs THEN v.d[j + digs]
                   ELSE IF j <= v.nu THEN 0
                   ELSE v.d[j]]]

\* the bit loop of ShiftRight: every used digit moves down b2 bits and
\* takes the low bits of the digit above it
ShiftRightLoop(v, b2) ==
    [v EXCEPT !.d =
       [j \in 1..Len(v.d) |->
          IF j > v.nu THEN v.d[j]
          ELSE ToU(BitOr(v.d[j] \div (2 ^ b2),
                         (IF j = v.nu THEN 0 ELSE v.d[j + 1] % (2 ^ b2))
                         * (2 ^ (BiD - b2))))]]

\* the end of ShiftRight: if (d[nu-1] == 0) nu--; if (nu == 0) s = MP_ZPOS
ShiftRightTrim(v) ==
    With(IF Rd(v, v.nu - 1) = 0 THEN v.nu - 1 ELSE v.nu, LAMBDA m :
    [s |-> IF m = 0 THEN MP_ZPOS ELSE v.s, nu |-> m, d |-> v.d])

\* X.ShiftRight(a, bits) for bits >= 0
ShiftRightBits(v, x, bits, aIsX) ==
    With(IF aIsX THEN v ELSE Copy(v, x).X, LAMBDA c :
    IF c.nu <= bits \div BiD THEN Ok(SetZero(c))
    ELSE Bind(GrowIfSmaller(c, c.nu - bits \div BiD), LAMBDA g :
         With(IF bits >= BiD THEN prvRightShiftDigits(g, bits \div BiD) ELSE g,
              LAMBDA sh :
         IF sh.nu = 0 THEN Ok(sh)
         ELSE IF bits % BiD > 0
              THEN Ok(ShiftRightTrim(ShiftRightLoop(sh, bits % BiD)))
              ELSE Ok(ShiftRightTrim(sh)))))

\* the bit loop of ShiftLeft and the carry out of the top digit
ShiftLeftLoop(y, b2) ==
    With([j \in 1..Len(y.d) |->
            IF j > y.nu THEN y.d[j]
            ELSE ToU(y.d[j] * (2 ^ b2))
                 + (IF j = 1 THEN 0 ELSE y.d[j - 1] \div (2 ^ (BiD - b2)))],
         LAMBDA bt :
    With(IF y.nu = 0 THEN 0 ELSE y.d[y.nu] \div (2 ^ (BiD - b2)), LAMBDA u :
    IF u > 0 THEN [s |-> y.s, nu |-> y.nu + 1, d |-> Wr(bt, y.nu, u)]
    ELSE [s |-> y.s, nu |-> y.nu, d |-> bt]))

\* X.ShiftLeft(a, bits) for bits >= 0
ShiftLeftBits(v, x, bits, aIsX) ==
    Bind(IF aIsX THEN Ok(v) ELSE Copy(v, x), LAMBDA c :
    Bind(GrowIfSmaller(c, c.nu + bits \div BiD + 1), LAMBDA g :
    Bind(IF bits >= BiD THEN prvLeftShiftDigits(g, bits \div BiD) ELSE Ok(g),
         LAMBDA sh :
    IF bits % BiD > 0 THEN Ok(ShiftLeftLoop(sh, bits % BiD)) ELSE Ok(sh))))

\* X.ShiftRight(a, bits); a negative count shifts the other way
ShiftRight(v, x, bits, aIsX) ==
    IF bits < 0 THEN ShiftLeftBits(v, x, -bits, aIsX)
    ELSE ShiftRightBits(v, x, bits, aIsX)

\* X.ShiftLeft(a, bits)
ShiftLeft(v, x, bits, aIsX) ==
    IF bits < 0 THEN ShiftRightBits(v, x, -bits, aIsX)
    ELSE ShiftLeftBits(v, x, bits, aIsX)

\* ------------------------------------------------- long-short arithmetic
\* carry loop of Add(sdig_t): for (i = 1; i < lim && u > 0; i++)
RECURSIVE AddCarry(_, _, _, _)
AddCarry(d, i, lim, u) ==
    IF i < lim /\ u > 0
    THEN AddCarry(Wr(d, i, ToW(d[i + 1] + u) % B), i + 1, lim,
                  ToU(ToW(d[i + 1] + u) \div B))
    ELSE [d |-> d, u |-> u]

\* borrow loop of Sub(sdig_t): for (i = 1; i < lim && u > 0; i++)
RECURSIVE SubBorrow(_, _, _, _)
SubBorrow(d, i, lim, u) ==
    IF i < lim /\ u > 0
    THEN SubBorrow(Wr(d, i, ToSW(d[i + 1] - u) % B), i + 1, lim,
                   IF ToSW(d[i + 1] - u) < 0 THEN 1 ELSE 0)
    ELSE [d |-> d, u |-> u]

\* if (u > 0) { d[nu] = u; nu++; }
PutCarry(sg, m, lp) ==
    IF lp.u > 0 THEN [s |-> sg, nu |-> m + 1, d |-> Wr(lp.d, m, lp.u)]
    ELSE [s |-> sg, nu |-> m, d |-> lp.d]

\* Add(sdig_t) once the receiver t holds a: the digit is added as
\* (uwrd_t) b, then the carry runs up
AddDigit(t, y) ==
    With(ToW(t.d[1] + ToW(y)), LAMBDA sum :
    PutCarry(t.s, t.nu,
             AddCarry(Wr(Wr(t.d, t.nu, 0), 0, sum % B), 1, t.nu,
                      ToU(sum \div B))))

\* Sub(sdig_t) once the receiver t holds a, with ba = |b|
SubDigit(t, ba) ==
    IF t.nu = 1 /\ t.d[1] <= ba
    THEN (IF ToU(ba - t.d[1]) = 0
          THEN [s |-> MP_ZPOS, nu |-> 0, d |-> Wr(t.d, 0, 0)]
          ELSE [s |-> IF t.s = MP_ZPOS THEN MP_NEG ELSE MP_ZPOS,
                nu |-> 1, d |-> Wr(t.d, 0, ToU(ba - t.d[1]))])
    ELSE With(ToSW(t.d[1] - ba), LAMBDA dif :
         With(SubBorrow(Wr(t.d, 0, dif % B), 1, t.nu,
                        IF dif < 0 THEN 1 ELSE 0), LAMBDA lp :
         [s |-> t.s,
          nu |-> IF lp.d[t.nu] = 0 THEN t.nu - 1 ELSE t.nu,
          d |-> lp.d]))

\* Add(sdig_t) when the signs agree
AddSameSign(v, x, y, aIsX) ==
    Bind(GrowIfSmaller(v, x.nu + 1), LAMBDA g :
    Bind(IF aIsX THEN Ok(g) ELSE Copy(g, x), LAMBDA t :
    Ok(AddDigit(t, y))))

\* Sub(sdig_t) when the signs agree
SubSameSign(v, x, y, aIsX) ==
    Bind(GrowIfSmaller(v, x.nu), LAMBDA g :
    Bind(IF aIsX THEN Ok(g) ELSE Copy(g, x), LAMBDA t :
    Ok(SubDigit(t, IF y > 0 THEN ToU(y) ELSE ToU(-y)))))

\* signs are different
Opposite(x, y) == (x.s = MP_NEG /\ y > 0) \/ (x.s = MP_ZPOS /\ y < 0)

\* X.Add(a, sdig_t b).  Sub(a, -b), which it calls when the signs differ,
\* finds the signs of a and -b equal and goes down its same-sign path
Add_sdig(v, x, y, aIsX) ==
    IF y = 0 THEN Ok(v)
    ELSE IF x.nu = 0 THEN SetValue(v, y)
    ELSE IF Opposite(x, y) THEN SubSameSign(v, x, ToSD(-y), aIsX)
    ELSE AddSameSign(v, x, y, aIsX)

\* X.Sub(a, sdig_t b).  Add(a, -b), which it calls when the signs differ,
\* finds the signs of a and -b equal and goes down its same-sign path
Sub_sdig(v, x, y, aIsX) ==
    IF y = 0 THEN Ok(v)
    ELSE IF x.nu = 0 THEN SetValue(v, ToSD(-y))
    ELSE IF Opposite(x, y) THEN AddSameSign(v, x, ToSD(-y), aIsX)
    ELSE SubSameSign(v, x, y, aIsX)

\* digit loop of prvMulDig: d[i] = low(src[i] * y + u)
RECURSIVE MulDigLoop(_, _, _, _, _, _)
MulDigLoop(src, d, i, lim, y, u) ==
    IF i < lim
    THEN MulDigLoop(src, Wr(d, i, ToW(Rd(src, i) * y + u) % B), i + 1, lim, y,
                    ToU(ToW(Rd(src, i) * y + u) \div B))
    ELSE [d |-> d, u |-> u]

\* X.prvMulDig(a, udig_t b)
prvMulDig(v, x, y, aIsX) ==
    Bind(IF v.nu < x.nu + 1 THEN Grow(v, x.nu + 1) ELSE Ok(v), LAMBDA g :
    Ok(PutCarry(v.s, x.nu,
                MulDigLoop(IF aIsX THEN g ELSE x, g.d, 0, x.nu, y, 0))))

\* X.Mul(a, sdig_t b)
Mul_sdig(v, x, y, aIsX) ==
    Bind(prvMulDig(v, x, IF y > 0 THEN ToU(y) ELSE ToU(-y), aIsX), LAMBDA m :
    Ok(WithSign(m, IF Opposite(x, y) THEN MP_NEG ELSE MP_ZPOS)))

\* X.prvModPow2(a, bits)
prvModPow2(v, x, bits, aIsX) ==
    IF bits = 0 THEN Ok(SetZero(v))
    ELSE Bind(IF aIsX THEN Ok(v) ELSE Copy(v, x), LAMBDA t :
         IF bits >= x.nu * BiD THEN Ok(t)
         ELSE With([j \in 1..Len(t.d) |->
                      IF j > (bits + BiD - 1) \div BiD /\ j <= t.nu THEN 0
                      ELSE t.d[j]], LAMBDA z :
              Ok(Clamp([t EXCEPT !.d =
                          Wr(z, bits \div BiD,
                             z[bits \div BiD + 1] % (2 ^ (bits % BiD)))]))))

\* X.prvDivPow2(a, bits, r): hasR says r != NULL, rIsA that r is a itself;
\* the result carries the receiver X and the remainder object R
prvDivPow2(v, x, bits, aIsX, R, hasR, rIsA) ==
    With(IF aIsX THEN ShiftRight(vlong_Init, v, bits, FALSE)
         ELSE ShiftRight(v, x, bits, FALSE), LAMBDA sh :
    IF sh.ret # 0 THEN [ret |-> sh.ret, X |-> v, R |-> R]
    ELSE With(IF hasR THEN prvModPow2(R, IF aIsX THEN v ELSE x, bits, rIsA)
              ELSE Ok(R), LAMBDA md :
         IF md.ret # 0
         THEN [ret |-> md.ret, X |-> IF aIsX THEN v ELSE sh.X, R |-> md.X]
         ELSE [ret |-> 0, X |-> sh.X, R |-> md.X]))

\* prvIsPow2(b, &nbits)
prvIsPow2(y) ==
    IF y = 0 \/ BitAnd(y, y - 1) # 0 THEN [is |-> 0, nbits |-> 0]
    ELSE [is |-> 1, nbits |-> BitLen(y) - 1]

\* one digit of the division loop of prvDivInt: w is the running
\* remainder with the digit shifted in
DivIntDigit(w1, y) == IF w1 >= y THEN ToU(w1 \div y) ELSE 0

\* division loop of prvDivInt, from the top digit down
RECURSIVE DivIntLoop(_, _, _, _, _)
DivIntLoop(x, qd, i, y, w) ==
    IF i < 0 THEN [d |-> qd, w |-> w]
    ELSE With(BitOr(ToW(w * B), Rd(x, i)), LAMBDA w1 :
         DivIntLoop(x, Wr(qd, i, DivIntDigit(w1, y)), i - 1, y,
                    IF w1 >= y THEN ToW(w1 - DivIntDigit(w1, y) * y) ELSE w1))

\* prvDivInt(a, udig_t b, q, &r) with q != NULL and q distinct from a;
\* rin is the value *r holds before the call
prvDivInt(x, y, q, rin) ==
    IF y = 0 THEN [ret |-> VLONG_ERR_DIV_BY_ZERO, q |-> q, r |-> rin]
    ELSE IF x.nu = 0 THEN [ret |-> 0, q |-> SetZero(q), r |-> y]
    ELSE IF y = 1
         THEN With(Copy(q, x), LAMBDA c : [ret |-> c.ret, q |-> c.X, r |-> 0])
    ELSE IF prvIsPow2(y).is # 0
         THEN With(prvDivPow2(q, x, prvIsPow2(y).nbits, FALSE,
                              vlong_Init, FALSE, FALSE), LAMBDA dp :
              [ret |-> dp.ret, q |-> dp.X,
               r |-> Rd(x, 0) % (2 ^ prvIsPow2(y).nbits)])
    ELSE With(Grow(q, x.nu), LAMBDA g :
         IF g.ret # 0 THEN [ret |-> g.ret, q |-> q, r |-> rin]
         ELSE With(DivIntLoop(x, g.X.d, x.nu - 1, y, 0), LAMBDA lp :
              [ret |-> 0,
               q |-> [s |-> q.s, nu |-> x.nu, d |-> lp.d],
               r |-> ToU(ToSD(lp.w))]))

\* the sign Div(sdig_t) gives the quotient
SignQ(x, y) == IF Opposite(x, y) THEN MP_NEG ELSE MP_ZPOS

\* X.Div(a, sdig_t b, &r); the result carries X and the remainder r
\* (rin is what *r held before the call)
Div_sdig(v, x, y, aIsX, rin) ==
    IF (IF y > 0 THEN ToU(y) ELSE ToU(-y)) = 1
    THEN With(IF aIsX THEN Ok(v) ELSE Copy(v, x), LAMBDA c :
         IF c.ret # 0 THEN [ret |-> c.ret, X |-> c.X, r |-> 0]
         ELSE [ret |-> 0, X |-> WithSign(c.X, SignQ(x, y)), r |-> 0])
    ELSE With(prvDivInt(x, ToU(y), IF aIsX THEN vlong_Init ELSE v, 0),
              LAMBDA dv :
         IF dv.ret # 0 THEN [ret |-> dv.ret, X |-> v, r |-> rin]
         ELSE [ret |-> 0,
               X |-> Clamp(WithSign(IF aIsX THEN prvMovePtr(v, dv.q) ELSE dv.q,
                                    SignQ(x, y))),
               r |-> IF x.s = MP_NEG THEN ToSD(-ToSD(dv.r)) ELSE ToSD(dv.r)])

\* X.Mod(a, sdig_t b)
Mod_sdig(v, x, y) ==
    With(Div_sdig(vlong_Init, x, y, FALSE, 0), LAMBDA dv :
    IF dv.ret = VLONG_SUCCESS THEN SetValue(v, dv.r) ELSE Err(dv.ret, v))

\* a.ModDig(a, sdig_t b)
ModDig(x, y) ==
    IF y = 0 THEN 0 ELSE Div_sdig(vlong_Init, x, y, FALSE, 0).r

\* ---------------------------------------------------- long-long arithmetic
\* for (i = 0; i < nmin; i++) c[i] = low(a[i] + b[i] + u)
RECURSIVE AddMagLoop(_, _, _, _, _, _)
AddMagLoop(x, y, cd, i, nmin, u) ==
    IF i < nmin
    THEN With(ToW(Rd(x, i) + Rd(y, i) + u), LAMBDA sum :
         AddMagLoop(x, y, Wr(cd, i, sum % B), i + 1, nmin, ToU(sum \div B)))
    ELSE [d |-> cd, u |-> u]

\* for (i = nmin; i < nmax; i++) c[i] = low(x[i] + u)
RECURSIVE AddMagTail(_, _, _, _, _)
AddMagTail(x, cd, i, nmax, u) ==
    IF i < nmax
    THEN With(ToW(Rd(x, i) + u), LAMBDA sum :
         AddMagTail(x, Wr(cd, i, sum % B), i + 1, nmax, ToU(sum \div B)))
    ELSE [d |-> cd, u |-> u]

\* the two loops of prvAddMag over the zeroed buffer z
AddMagDigits(x, y, z) ==
    With(AddMagLoop(x, y, z, 0, Min(x.nu, y.nu), 0), LAMBDA lp :
    IF x.nu # y.nu
    THEN AddMagTail(IF x.nu < y.nu THEN y ELSE x, lp.d, Min(x.nu, y.nu),
                    Max(x.nu, y.nu), lp.u)
    ELSE lp)

\* X.prvAddMag(a, b); al names the arguments that are the receiver itself
prvAddMag(v, x, y, al) ==
    BindOr(GrowIfSmaller(IF al # "none" THEN vlong_Init ELSE v,
                         Max(x.nu, y.nu) + 1), v, LAMBDA c :
    With(PutCarry(c.s, Max(x.nu, y.nu),
                  AddMagDigits(x, y, MemZero(c.d, 0, v.nu))), LAMBDA res :
    IF al # "none" THEN Ok(prvMovePtr(v, res)) ELSE Ok(res)))

\* SubMagLoop with the borrow dropped
RECURSIVE SubMagLoop_NoBorrow(_, _, _, _, _, _)
SubMagLoop_NoBorrow(x, y, cd, i, nmin, u) ==
    IF i < nmin
    THEN SubMagLoop_NoBorrow(x, y, Wr(cd, i, ToSW(Rd(x, i) - Rd(y, i)) % B),
                             i + 1, nmin, 0)
    ELSE [d |-> cd, u |-> 0]

\* for (i = 0; i < nmin; i++) c[i] = low(a[i] - b[i] - u)
RECURSIVE SubMagLoop(_, _, _, _, _, _)
SubMagLoop(x, y, cd, i, nmin, u) ==
    IF i < nmin
    THEN With(ToSW(Rd(x, i) - Rd(y, i) - u), LAMBDA dif :
         SubMagLoop(x, y, Wr(cd, i, dif % B), i + 1, nmin,
                    IF dif < 0 THEN 1 ELSE 0))
    ELSE [d |-> cd, u |-> u]

\* for (i = nmin; i < nmax; i++) c[i] = low(a[i] - u)
RECURSIVE SubMagTail(_, _, _, _, _)
SubMagTail(x, cd, i, nmax, u) ==
    IF i < nmax
    THEN With(ToSW(Rd(x, i) - u), LAMBDA dif :
         SubMagTail(x, Wr(cd, i, dif % B), i + 1, nmax,
                    IF dif < 0 THEN 1 ELSE 0))
    ELSE [d |-> cd, u |-> u]

\* the two loops of prvSubMag over the zeroed buffer z
SubMagDigits(x, y, z) ==
    With(SubMagLoop(x, y, z, 0, y.nu, 0), LAMBDA lp :
    SubMagTail(x, lp.d, y.nu, x.nu, lp.u))

\* X.prvSubMag(a, b), |a| >= |b|
prvSubMag(v, x, y, al) ==
    BindOr(GrowIfSmaller(IF al # "none" THEN vlong_Init ELSE v, x.nu), v,
           LAMBDA c :
    With([s |-> c.s, nu |-> x.nu,
          d |-> SubMagDigits(x, y, MemZero(c.d, 0, x.nu)).d], LAMBDA res :
    IF al # "none" THEN Ok(Clamp(prvMovePtr(v, res))) ELSE Ok(Clamp(res))))

\* X.Add(a, b)
Add(v, x, y, al) ==
    IF x.s = y.s THEN prvAddMag(WithSign(v, x.s), x, y, al)
    ELSE IF CompareMag(x, y) = MP_LT
         THEN prvSubMag(WithSign(v, y.s), y, x, al)
         ELSE prvSubMag(WithSign(v, x.s), x, y, al)

\* X.Sub(a, b)
Sub(v, x, y, al) ==
    IF x.s # y.s THEN prvAddMag(WithSign(v, x.s), x, y, al)
    ELSE IF CompareMag(x, y) = MP_GT
         THEN prvSubMag(WithSign(v, x.s), x, y, al)
         ELSE prvSubMag(WithSign(v, IF x.s = MP_ZPOS THEN MP_NEG ELSE MP_ZPOS),
                        y, x, al)

\* inner loop of prvMulBaseline: for (j = 0; j < nmin; j++)
RECURSIVE MulInner(_, _, _, _, _, _, _)
MulInner(d, t1, y, i, j, nmin, u) ==
    IF j < nmin
    THEN With(ToW((IF i + j < Len(d) THEN d[i + j + 1] ELSE junk)
                  + t1 * Rd(y, j) + u), LAMBDA rr :
         MulInner(Wr(d, i + j, rr % B), t1, y, i, j + 1, nmin, ToU(rr \div B)))
    ELSE [d |-> d, u |-> u]

\* if (i + j < digs) d[i+j] = u, after the inner loop
MulPutCarry(inn, at, digs) ==
    IF at < digs THEN Wr(inn.d, at, inn.u) ELSE inn.d

\* outer loop of prvMulBaseline: for (i = 0; i < a.nu; i++)
RECURSIVE MulOuter(_, _, _, _, _, _)
MulOuter(d, x, y, i, nmin, digs) ==
    IF i < x.nu
    THEN MulOuter(MulPutCarry(MulInner(d, Rd(x, i), y, i, 0, nmin, 0),
                              i + nmin, digs),
                  x, y, i + 1, nmin, digs)
    ELSE d

\* X.prvMulBaseline(a, b, ndigs); the receiver is neither a nor b
prvMulBaseline(v, x, y, ndigs) ==
    With(IF x.nu + y.nu < ndigs THEN x.nu + y.nu ELSE ndigs, LAMBDA digs :
    Bind(IF v.nu < digs THEN Grow(v, digs) ELSE Ok(v), LAMBDA g :
    Ok(Clamp([s |-> v.s, nu |-> digs,
              d |-> MulOuter(MemZero(g.d, 0, digs), x, y, 0,
                             IF ndigs < y.nu THEN ndigs ELSE y.nu, digs)]))))

RECURSIVE Mul(_, _, _, _, _)

\* the low Bh digits of a as an object of cap digits, clamped
KaratsubaLow(x, Bh, cap) ==
    Bind(Grow(vlong_Init, cap), LAMBDA g :
    Ok(Clamp([s |-> MP_ZPOS, nu |-> Bh, d |-> MemCpy(g.d, 0, x.d, 0, Bh)])))

\* KaratsubaHigh copying from digit 0 instead of digit Bh
KaratsubaHigh_FromZero(x, Bh) ==
    Bind(Grow(vlong_Init, x.nu - Bh), LAMBDA g :
    Ok([s |-> MP_ZPOS, nu |-> x.nu - Bh,
        d |-> MemCpy(g.d, 0, x.d, 0, x.nu - Bh)]))

\* the digits of a from Bh up
KaratsubaHigh(x, Bh) ==
    Bind(Grow(vlong_Init, x.nu - Bh), LAMBDA g :
    Ok([s |-> MP_ZPOS, nu |-> x.nu - Bh,
        d |-> MemCpy(g.d, 0, x.d, Bh, x.nu - Bh)]))

\* prvMulKaratsuba from the three products on: fresh is an empty object of
\* 2*Bh digits, as t1, x0y0 and x1y1 are when they are first written
KaratsubaCombine(v, al, Bh, fresh, x0, x1, y0, y1) ==
    BindOr(Mul(fresh, x0, y0, 0, "none"), v, LAMBDA x0y0 :
    BindOr(Mul(fresh, x1, y1, 0, "none"), v, LAMBDA x1y1 :
    BindOr(Add(fresh, x1, x0, "none"), v, LAMBDA t1a :
    BindOr(Add(x0, y1, y0, "none"), v, LAMBDA x0a :
    BindOr(Mul(t1a, x0a, t1a, 0, "b"), v, LAMBDA t1b :
    BindOr(Add(x0a, x0y0, x1y1, "none"), v, LAMBDA x0b :
    BindOr(Sub(t1b, t1b, x0b, "a"), v, LAMBDA t1c :
    BindOr(prvLeftShiftDigits(t1c, Bh), v, LAMBDA t1d :
    BindOr(prvLeftShiftDigits(x1y1, Bh * 2), v, LAMBDA x1y1s :
    BindOr(Add(t1d, x0y0, t1d, "b"), v, LAMBDA t1e :
    BindOr(Add(IF al # "none" THEN vlong_Init ELSE v, t1e, x1y1s, "none"), v,
           LAMBDA c :
    IF al # "none" THEN Ok(prvMovePtr(v, c)) ELSE Ok(c))))))))))))

\* X.prvMulKaratsuba(a, b)
prvMulKaratsuba(v, x, y, al) ==
    With(Min(x.nu, y.nu) \div 2, LAMBDA Bh :
    BindOr(KaratsubaLow(x, Bh, Bh * 2), v, LAMBDA x0 :
    BindOr(KaratsubaHigh(x, Bh), v, LAMBDA x1 :
    BindOr(KaratsubaLow(y, Bh, Bh), v, LAMBDA y0 :
    BindOr(KaratsubaHigh(y, Bh), v, LAMBDA y1 :
    BindOr(Grow(vlong_Init, Bh * 2), v, LAMBDA fresh :
    KaratsubaCombine(v, al, Bh, fresh, x0, x1, y0, y1)))))))

\* memset(&d[digs], 0, nu - digs * sizeof(udig_t)) of Mul: the count is in
\* bytes; a digit holds CiD chars of BiD \div CiD bits
MulTailZero(d, digs, bytes) ==
    [j \in 1..Len(d) |->
       IF j <= digs THEN d[j]
       ELSE IF j <= digs + bytes \div CiD THEN 0
       ELSE IF j = digs + bytes \div CiD + 1
            THEN d[j] - (d[j] % (2 ^ ((bytes % CiD) * (BiD \div CiD))))
       ELSE d[j]]

\* the end of Mul, m being what the multiplication returned
MulFinish(v, al, sign, digs, m) ==
    IF m.X.nu > digs /\ m.X.nu - digs * CiD < 0 THEN Err(Crashed, v)
    ELSE With(IF m.X.nu > digs
              THEN [s |-> m.X.s, nu |-> digs,
                    d |-> MulTailZero(m.X.d, digs, m.X.nu - digs * CiD)]
              ELSE m.X, LAMBDA cut :
         [ret |-> m.ret,
          X |-> WithSign(IF al # "none" THEN prvMovePtr(v, cut) ELSE cut, sign)])

\* X.Mul(a, b, maxdigs)
Mul(v, x, y, maxdigs, al) ==
    IF x.nu = 0 \/ y.nu = 0 THEN Ok(SetZero(v))
    ELSE With(IF al # "none" THEN vlong_Init ELSE v, LAMBDA c :
         BindOr(IF c.nu < x.nu + y.nu THEN Grow(c, x.nu + y.nu) ELSE Ok(c), v,
                LAMBDA g :
         With(IF maxdigs > 0 /\ maxdigs < x.nu + y.nu THEN maxdigs
              ELSE x.nu + y.nu, LAMBDA digs :
         MulFinish(v, al, IF x.s = y.s THEN MP_ZPOS ELSE MP_NEG, digs,
                   IF Min(x.nu, y.nu) >= VLONG_KARATSUBA_MUL_CUTOFF
                   THEN prvMulKaratsuba(g, x, y, "none")
                   ELSE prvMulBaseline(g, x, y, digs)))))

\* step 3.1 of prvDivBig: the first estimate of the quotient digit
DivEstimate(x, y, i, t) ==
    IF Rd(x, i) = Rd(y, t) THEN MP_MASK_DIG
    ELSE With(ToW(BitOr(ToW(Rd(x, i) * B), Rd(x, i - 1))) \div Rd(y, t),
              LAMBDA tmpx :
         IF tmpx > MP_MASK_DIG THEN MP_MASK_DIG ELSE tmpx)

\* t1 = y{t} * b + y{t-1}, written over the zeroed t1
DivLhs(t1, y, t) ==
    [s |-> MP_ZPOS, nu |-> 2,
     d |-> Wr(Wr(SetZero(t1).d, 0, IF t < 1 THEN 0 ELSE Rd(y, t - 1)),
              1, Rd(y, t))]

\* t2 = x{i} * b^2 + x{i-1} * b + x{i-2}
DivRhs(x, i) ==
    [s |-> MP_ZPOS, nu |-> 3,
     d |-> <<IF i < 2 THEN 0 ELSE Rd(x, i - 2),
             IF i < 1 THEN 0 ELSE Rd(x, i - 1),
             Rd(x, i)>>]

\* the do ... while (CompareMag(t1, t2) == MP_GT) of prvDivBig, entered
\* with the digit already decremented; yields [ret, qd, t1]
RECURSIVE DivRefine(_, _, _, _, _, _)
DivRefine(qd, t1, x, y, i, t) ==
    With(DivLhs(t1, y, t), LAMBDA lhs :
    With(prvMulDig(lhs, lhs, qd, TRUE), LAMBDA m :
    IF m.ret # 0 THEN [ret |-> m.ret, qd |-> qd, t1 |-> m.X]
    ELSE IF CompareMag(m.X, DivRhs(x, i)) = MP_GT
         THEN DivRefine(ToU(qd - 1), m.X, x, y, i, t)
         ELSE [ret |-> VLONG_SUCCESS, qd |-> qd, t1 |-> m.X]))

\* q.d[at] = qd
PutQ(q, at, qd) == [q EXCEPT !.d = Wr(q.d, at, qd)]

\* if (x.s == MP_NEG) { x = x + y*b^(i-t-1); q{i-t-1} -= 1; }
DivAddBack(st, xs, t1, y, i, t, qd) ==
    Try(Copy(t1, y), st, LAMBDA cp :
    Try(prvLeftShiftDigits(cp, i - t - 1), st, LAMBDA l2 :
    Try(Add(xs, xs, l2, "a"), st, LAMBDA xa :
    [ret |-> VLONG_SUCCESS,
     q |-> PutQ(st.q, i - t - 1, BitAnd(ToU(qd - 1), MP_MASK_DIG)),
     x |-> xa, t1 |-> l2])))

\* step 3.3 of prvDivBig with the refined digit rf.qd
DivSubtract(st, rf, y, i, t) ==
    Try(prvMulDig(rf.t1, y, rf.qd, FALSE), st, LAMBDA m :
    Try(prvLeftShiftDigits(m, i - t - 1), st, LAMBDA ls :
    Try(Sub(st.x, st.x, ls, "a"), st, LAMBDA xs :
    IF xs.s = MP_NEG THEN DivAddBack(st, xs, ls, y, i, t, rf.qd)
    ELSE [ret |-> VLONG_SUCCESS, q |-> PutQ(st.q, i - t - 1, rf.qd),
          x |-> xs, t1 |-> ls])))

\* one pass of the loop of step 3; st = [ret, q, x, t1].  A zero top digit
\* of the divisor makes the estimate divide by zero
DivStep(st, y, i, t) ==
    IF Rd(st.x, i) # Rd(y, t) /\ Rd(y, t) = 0 THEN [st EXCEPT !.ret = Crashed]
    ELSE With(DivRefine(DivEstimate(st.x, y, i, t), st.t1, st.x, y, i, t),
              LAMBDA rf :
         IF rf.ret # 0 THEN [st EXCEPT !.ret = rf.ret]
         ELSE DivSubtract(st, rf, y, i, t))

\* step 3 of prvDivBig: for (i = n; i >= t + 1; i--)
RECURSIVE DivLoop(_, _, _, _)
DivLoop(st, y, i, t) ==
    IF i < t + 1 \/ st.ret # 0 THEN st
    ELSE IF i > st.x.nu THEN DivLoop(st, y, i - 1, t)
    ELSE DivLoop(DivStep(st, y, i, t), y, i - 1, t)

\* while (CompareMag(x, y) != MP_LT) { ++q.d[n - t]; x.prvSubMag(x, y); }
RECURSIVE DivTop(_, _, _)
DivTop(st, y, at) ==
    IF st.ret # 0 \/ CompareMag(st.x, y) = MP_LT THEN st
    ELSE With(prvSubMag(st.x, st.x, y, "a"), LAMBDA sb :
         DivTop([ret |-> sb.ret, x |-> sb.X, t1 |-> st.t1,
                 q |-> PutQ(st.q, at, ToU(Rd(st.q, at) + 1))],
                y, at))

\* the shift count that brings the top digit of y to BiD-1 bits
DivNorm(y) ==
    IF GetNumBits(y) % BiD < BiD - 1 THEN (BiD - 1) - (GetNumBits(y) % BiD)
    ELSE 0

\* x.ShiftLeft(x, norm), done only when norm was computed in the branch
DivShift(x, norm) == IF norm > 0 THEN ShiftLeft(x, x, norm, TRUE) ELSE Ok(x)

\* prvDivBig from the normalized x and y on: the quotient digits and the
\* remainder, still shifted; yields [ret, q, x, t1]
DivDigits(q, t1, x, y) ==
    Try(prvLeftShiftDigits(y, (x.nu - 1) - (y.nu - 1)),
        [ret |-> VLONG_SUCCESS, q |-> q, x |-> x, t1 |-> t1], LAMBDA ly :
    DivLoop(DivTop([ret |-> VLONG_SUCCESS, q |-> q, x |-> x, t1 |-> t1],
                   ly, (x.nu - 1) - (y.nu - 1)),
            prvRightShiftDigits(ly, (x.nu - 1) - (y.nu - 1)),
            x.nu - 1, y.nu - 1))

\* the temporaries of prvDivBig set up, the digits computed
DivCompute(x, y) ==
    With([ret |-> VLONG_SUCCESS, q |-> vlong_Init, x |-> x, t1 |-> vlong_Init],
         LAMBDA none :
    Try(Grow(vlong_Init, x.nu + 2), none, LAMBDA q :
    Try(Copy(vlong_Init, x), none, LAMBDA cx :
    Try(Copy(vlong_Init, y), none, LAMBDA cy :
    Try(DivShift(WithSign(cx, MP_ZPOS), DivNorm(cy)), none, LAMBDA sx :
    Try(DivShift(WithSign(cy, MP_ZPOS), DivNorm(cy)), none, LAMBDA sy :
    DivDigits([q EXCEPT !.nu = x.nu + 2], q, sx, sy)))))))

\* prvDivBig when |a| < |b|: r->Copy(a), then q2->SetZero()
DivLess(x, Q, hasQ, R, hasR, rAl) ==
    With(IF hasR THEN Copy(R, x) ELSE Ok(R), LAMBDA cr :
    IF cr.ret # 0 THEN [ret |-> cr.ret, Q |-> Q, R |-> R]
    ELSE With(IF ~hasQ THEN Q
              ELSE IF hasR /\ rAl = "q" THEN SetZero(cr.X)
              ELSE SetZero(Q), LAMBDA q :
         [ret |-> VLONG_SUCCESS, Q |-> q,
          R |-> IF hasQ /\ rAl = "q" THEN q ELSE cr.X]))

\* prvDivBig when |a| = |b|: r->SetZero(), then q2->SetValue(a) and
\* q2->s = sign
DivEqual(x, sign, Q, hasQ, R, hasR, rAl) ==
    With(IF hasR THEN SetZero(R) ELSE R, LAMBDA zr :
    With(IF hasQ
         THEN Copy(IF hasR /\ rAl = "q" THEN zr ELSE Q,
                   IF hasR /\ rAl = "a" THEN zr ELSE x).X
         ELSE Q, LAMBDA q :
    [ret |-> VLONG_SUCCESS,
     Q |-> IF hasQ THEN WithSign(q, sign) ELSE q,
     R |-> IF hasQ /\ rAl = "q" THEN WithSign(q, sign) ELSE zr]))

\* the end of prvDivBig: q2->Swap(q), q2->s = sign; x.ShiftRight(x, norm),
\* r->swap(x), r->s = a.s, where a may by now be the quotient or x
DivFinish(x, sign, norm, Q, hasQ, qAl, R, hasR, rAl, st) ==
    With(IF hasQ THEN WithSign(Clamp(st.q), sign) ELSE Q, LAMBDA qq :
    IF ~hasR THEN [ret |-> VLONG_SUCCESS, Q |-> qq, R |-> R]
    ELSE With(ShiftRight(st.x, st.x, norm, TRUE), LAMBDA sr :
         IF sr.ret # 0 THEN [ret |-> sr.ret, Q |-> qq, R |-> R]
         ELSE With(WithSign(sr.X, IF rAl = "a" THEN sr.X.s
                                  ELSE IF rAl = "q" /\ qAl = "a" THEN sr.X.s
                                  ELSE IF hasQ /\ qAl = "a" THEN sign
                                  ELSE x.s), LAMBDA rr :
              [ret |-> VLONG_SUCCESS,
               Q |-> IF rAl = "q" THEN rr ELSE qq,
               R |-> rr])))

\* prvDivBig(a, b, q2, r): hasQ / hasR say whether q2 / r is non-NULL;
\* qAl is "a" or "b" when q2 is that argument, rAl is "a", "b", or "q" when
\* r is q2; Q and R are the objects behind q2 and r on entry
prvDivBig(x, y, Q, hasQ, qAl, R, hasR, rAl) ==
    IF y.nu = 0 THEN [ret |-> VLONG_ERR_DIV_BY_ZERO, Q |-> Q, R |-> R]
    ELSE IF CompareMag(x, y) = MP_LT THEN DivLess(x, Q, hasQ, R, hasR, rAl)
    ELSE IF CompareMag(x, y) = MP_EQ
         THEN DivEqual(x, IF x.s = y.s THEN MP_ZPOS ELSE MP_NEG,
                       Q, hasQ, R, hasR, rAl)
    ELSE With(DivCompute(x, y), LAMBDA st :
         IF st.ret # 0 THEN [ret |-> st.ret, Q |-> Q, R |-> R]
         ELSE DivFinish(x, IF x.s = y.s THEN MP_ZPOS ELSE MP_NEG, DivNorm(y),
                        Q, hasQ, qAl, R, hasR, rAl, st))

\* X.Div(a, b, r); al names the arguments that are the receiver, rAl what r is
Div(v, x, y, al, R, hasR, rAl) ==
    prvDivBig(x, y, v, TRUE, al, R, hasR, rAl)

\* X.Mod(a, b)
Mod(v, x, y, al) ==
    IF y.nu = 0 THEN Ok(SetZero(v))
    ELSE With(prvDivBig(x, y, vlong_Init, FALSE, "none", v, TRUE, al),
              LAMBDA dv :
         [ret |-> dv.ret, X |-> dv.R])

\* X.MulMod(a, b, n)
MulMod(v, x, y, m, al) ==
    Bind(Mul(v, x, y, 0, al), LAMBDA p : Mod(p, p, m, "a"))

\* ------------------------------------------------------ modular reduction
\* X.prv2Expt(bit): X = 2**bit
prv2Expt(v, bit) ==
    Bind(Grow(SetZero(v), bit \div BiD + 1), LAMBDA g :
    Ok([s |-> g.s, nu |-> bit \div BiD + 1,
        d |-> Wr(g.d, bit \div BiD, 2 ^ (bit % BiD))]))

\* prvReduceBarrettSetup(n, &mu): mu = 2**(2 * n.nu * BiD) / n
prvReduceBarrettSetup(m, mu) ==
    Bind(prv2Expt(mu, m.nu * 2 * BiD), LAMBDA p :
    With(prvDivBig(p, m, p, TRUE, "a", vlong_Init, FALSE, "none"), LAMBDA dv :
    [ret |-> dv.ret, X |-> dv.Q]))

\* X.prvMod2d(a, bits): X = a mod 2**bits
prvMod2d(v, x, bits, aIsX) ==
    IF bits <= 0 THEN Ok(SetZero(v))
    ELSE IF bits >= x.nu * BiD THEN Copy(v, x)
    ELSE Bind(IF aIsX THEN Ok(v) ELSE Copy(v, x), LAMBDA c :
         Ok(Clamp([c EXCEPT !.d =
              [j \in 1..Len(c.d) |->
                 IF j > (bits + BiD - 1) \div BiD /\ j <= c.nu THEN 0
                 ELSE IF j = bits \div BiD + 1
                      THEN c.d[j] % (2 ^ (bits % BiD))
                 ELSE c.d[j]]])))

\* while (x->Compare(n) == MP_GT) x->Sub(*x, n)
RECURSIVE BarrettLoop(_, _)
BarrettLoop(x, m) ==
    IF Compare(x, m) = MP_GT
    THEN Bind(Sub(x, x, m, "a"), LAMBDA y : BarrettLoop(y, m))
    ELSE Ok(x)

\* if (x->s == MP_NEG && x->nu > 0) x += b**(um+1), q being the temporary
BarrettFix(x, q, um) ==
    IF x.s = MP_NEG /\ x.nu > 0
    THEN Bind(SetValue(q, 1), LAMBDA q1 :
         Bind(prvLeftShiftDigits(q1, um + 1), LAMBDA q2 :
         Add(x, x, q2, "a")))
    ELSE Ok(x)

\* prvReduceBarrett(x, n, mu); the assert aborts the program
prvReduceBarrett(x, m, mu) ==
    IF ~(x.nu < m.nu * 2 + 1) THEN Err(Crashed, x)
    ELSE BindOr(Copy(vlong_Init, x), x, LAMBDA q0 :
         With(prvRightShiftDigits(q0, m.nu - 1), LAMBDA q1 :
         BindOr(Mul(q1, q1, mu, 0, "a"), x, LAMBDA q2 :
         With(prvRightShiftDigits(q2, m.nu + 1), LAMBDA q3 :
         BindOr(prvMod2d(x, x, BiD * (m.nu + 1), TRUE), x, LAMBDA x1 :
         BindOr(Mul(q3, q3, m, m.nu + 1, "a"), x1, LAMBDA q4 :
         BindOr(Sub(x1, x1, q4, "a"), x1, LAMBDA x2 :
         BindOr(BarrettFix(x2, q4, m.nu), x2, LAMBDA x3 :
         BarrettLoop(x3, m)))))))))

\* prvReduceMontgomerySetup(n, &rho): rho = -1/n mod 2**BiD, as [ret, rho];
\* the Newton steps are those the digit width selects
MontgomeryNewton(bb, x) == ToU(x * ToU(2 - ToU(bb * x)))

prvReduceMontgomerySetup(m) ==
    IF Len(m.d) = 0 THEN [ret |-> Crashed, rho |-> 0]
    ELSE IF Rd(m, 0) % 2 = 0 THEN [ret |-> VLONG_ERR_BAD_ARG_1, rho |-> 0]
    ELSE With(MontgomeryNewton(Rd(m, 0),
                ToU(BitAnd(ToU(Rd(m, 0) + 2), 4) * 2 + Rd(m, 0))), LAMBDA x8 :
         With(IF BiD >= 16 THEN MontgomeryNewton(Rd(m, 0), x8) ELSE x8,
              LAMBDA x16 :
         With(IF BiD >= 32 THEN MontgomeryNewton(Rd(m, 0), x16) ELSE x16,
              LAMBDA x32 :
         With(IF BiD >= 64 THEN MontgomeryNewton(Rd(m, 0), x32) ELSE x32,
              LAMBDA x64 :
         [ret |-> VLONG_SUCCESS, rho |-> ToU(0 - x64)]))))

\* for (i = bits - 1; i < BiD; i++) { a *= 2; if (|a| > |b|) a -= b; }
RECURSIVE MontgomeryNormLoop(_, _, _)
MontgomeryNormLoop(x, m, i) ==
    IF i < BiD
    THEN Bind(prvMulDig(x, x, 2, TRUE), LAMBDA y :
         IF CompareMag(y, m) = MP_GT
         THEN Bind(Sub(y, y, m, "a"), LAMBDA z : MontgomeryNormLoop(z, m, i + 1))
         ELSE MontgomeryNormLoop(y, m, i + 1))
    ELSE Ok(x)

\* prvMontgomeryNorm(a, b): a = R mod b
prvMontgomeryNorm(v, m) ==
    IF m.nu > 1
    THEN Bind(prv2Expt(v, (m.nu - 1) * BiD + (GetNumBits(m) % BiD) - 1),
              LAMBDA p : MontgomeryNormLoop(p, m, (GetNumBits(m) % BiD) - 1))
    ELSE Bind(SetValue(v, 1), LAMBDA p : MontgomeryNormLoop(p, m, 0))

\* inner loop of prvReduceMontgomery: x += mu * n * b**i, digit by digit
RECURSIVE MontgomeryInner(_, _, _, _, _, _)
MontgomeryInner(d, i, j, mu, m, u) ==
    IF j < m.nu
    THEN With(ToW(mu * Rd(m, j) + u + d[i + j + 1]), LAMBDA rr :
         MontgomeryInner(Wr(d, i + j, rr % B), i, j + 1, mu, m, rr \div B))
    ELSE [ok |-> TRUE, d |-> d, u |-> u]

\* while (u) { r = x->d[i+j] + u; ... j++; }; a carry that runs past the
\* allocation is written outside it
RECURSIVE MontgomeryCarry(_, _, _)
MontgomeryCarry(d, at, u) ==
    IF u = 0 THEN [ok |-> TRUE, d |-> d, u |-> 0]
    ELSE IF at >= Len(d) THEN [ok |-> FALSE, d |-> d, u |-> u]
    ELSE MontgomeryCarry(Wr(d, at, (d[at + 1] + u) % B), at + 1,
                         (d[at + 1] + u) \div B)

\* for (i = 0; i < n.nu; i++)
RECURSIVE MontgomeryOuter(_, _, _, _)
MontgomeryOuter(d, i, m, rho) ==
    IF i < m.nu
    THEN With(MontgomeryInner(d, i, 0, ToU(ToW(d[i + 1] * rho)), m, 0),
              LAMBDA inn :
         With(MontgomeryCarry(inn.d, i + m.nu, inn.u), LAMBDA cr :
         IF cr.ok THEN MontgomeryOuter(cr.d, i + 1, m, rho) ELSE cr))
    ELSE [ok |-> TRUE, d |-> d, u |-> 0]

\* prvReduceMontgomery(x, n, rho)
prvReduceMontgomery(x, m, rho) ==
    Bind(Grow(x, m.nu * 2 + 1), LAMBDA g :
    With(MontgomeryOuter(g.d, 0, m, rho), LAMBDA lp :
    IF ~lp.ok THEN Err(Crashed, x)
    ELSE With(prvRightShiftDigits(
                 Clamp([s |-> g.s, nu |-> m.nu * 2 + 1, d |-> lp.d]), m.nu),
              LAMBDA sh :
         IF CompareMag(sh, m) = MP_GT THEN prvSubMag(sh, sh, m, "a")
         ELSE Ok(sh))))

\* the number of digits among the first m that are all ones
RECURSIVE CountFull(_, _)
CountFull(d, m) ==
    IF m = 0 THEN 0
    ELSE (IF d[m] = MP_MASK_DIG THEN 1 ELSE 0) + CountFull(d, m - 1)

\* n.prvIsDrModulus()
prvIsDrModulus(v) ==
    IF v.nu = 0 THEN FALSE
    ELSE IF v.nu = 1 THEN TRUE
    ELSE CountFull(v.d, v.nu) >= v.nu \div 2

\* prvReduceDRSetup(n, &mu): mu = 2**bits(n) - n
prvReduceDRSetup(m, mu) ==
    Bind(prv2Expt(vlong_Init, GetNumBits(m)), LAMBDA tmp1 :
    Sub(mu, tmp1, m, "none"))

\* the loop of prvReduceDR; q is the temporary the passes share
RECURSIVE ReduceDRLoop(_, _, _, _)
ReduceDRLoop(x, q, m, mu) ==
    With(prvDivPow2(q, x, GetNumBits(m), FALSE, x, TRUE, TRUE), LAMBDA dp :
    IF dp.ret # 0 THEN Err(dp.ret, x)
    ELSE BindOr(Mul(dp.X, dp.X, mu, 0, "a"), x, LAMBDA q2 :
         BindOr(prvAddMag(dp.R, dp.R, q2, "a"), x, LAMBDA x2 :
         IF CompareMag(x2, m) = MP_GT
         THEN BindOr(Sub(x2, x2, m, "a"), x2, LAMBDA x3 :
              ReduceDRLoop(x3, q2, m, mu))
         ELSE Ok(x2))))

\* prvReduceDR(x, n, mu)
prvReduceDR(x, m, mu) == ReduceDRLoop(x, vlong_Init, m, mu)

\* ------------------------------------------------- extended binary GCD
\* while ((ta.d[0] & 1) == 0 && (tb.d[0] & 1) == 0); yields [ret, ta, tb, tg]
RECURSIVE GcdStrip(_, _, _)
GcdStrip(ta, tb, tg) ==
    IF Rd(ta, 0) % 2 = 0 /\ Rd(tb, 0) % 2 = 0
    THEN With(ShiftRight(ta, ta, 1, TRUE), LAMBDA sa :
         With(ShiftRight(tb, tb, 1, TRUE), LAMBDA sb :
         IF sa.ret # 0 \/ sb.ret # 0
         THEN [ret |-> IF sa.ret # 0 THEN sa.ret ELSE sb.ret,
               ta |-> ta, tb |-> tb, tg |-> tg]
         ELSE GcdStrip(sa.X, sb.X, tg + 1)))
    ELSE [ret |-> VLONG_SUCCESS, ta |-> ta, tb |-> tb, tg |-> tg]

\* the cofactor update of a halving pass: if either cofactor is odd, add tb
\* and subtract ta; then halve both.  Yields [ret, w1, w2]
GcdCofactors(w1, w2, ta, tb) ==
    With(IF Rd(w1, 0) % 2 # 0 \/ Rd(w2, 0) % 2 # 0
         THEN Add(w1, w1, tb, "a") ELSE Ok(w1), LAMBDA p1 :
    With(IF Rd(w1, 0) % 2 # 0 \/ Rd(w2, 0) % 2 # 0
         THEN Sub(w2, w2, ta, "a") ELSE Ok(w2), LAMBDA p2 :
    IF p1.ret # 0 \/ p2.ret # 0
    THEN [ret |-> IF p1.ret # 0 THEN p1.ret ELSE p2.ret, w1 |-> w1, w2 |-> w2]
    ELSE With(ShiftRight(p1.X, p1.X, 1, TRUE), LAMBDA h1 :
         With(ShiftRight(p2.X, p2.X, 1, TRUE), LAMBDA h2 :
         [ret |-> IF h1.ret # 0 THEN h1.ret ELSE h2.ret,
          w1 |-> h1.X, w2 |-> h2.X]))))

\* while ((t.d[0] & 1) == 0) { t >>= 1; update and halve the cofactors };
\* yields [ret, t, w1, w2].  d[0] of a cofactor that never had a buffer is
\* read through a null pointer
RECURSIVE GcdHalve(_, _, _, _, _)
GcdHalve(t, w1, w2, ta, tb) ==
    IF Rd(t, 0) % 2 # 0 THEN [ret |-> VLONG_SUCCESS, t |-> t, w1 |-> w1, w2 |-> w2]
    ELSE With(ShiftRight(t, t, 1, TRUE), LAMBDA sh :
         IF sh.ret # 0 THEN [ret |-> sh.ret, t |-> t, w1 |-> w1, w2 |-> w2]
         ELSE IF Len(w1.d) = 0 \/ (Rd(w1, 0) % 2 = 0 /\ Len(w2.d) = 0)
              THEN [ret |-> Crashed, t |-> sh.X, w1 |-> w1, w2 |-> w2]
         ELSE With(GcdCofactors(w1, w2, ta, tb), LAMBDA cf :
              IF cf.ret # 0
              THEN [ret |-> cf.ret, t |-> sh.X, w1 |-> w1, w2 |-> w2]
              ELSE GcdHalve(sh.X, cf.w1, cf.w2, ta, tb)))

\* t -= o; w1 -= o1; w2 -= o2; yields [ret, t, w1, w2]
GcdSubtract(t, w1, w2, o, o1, o2) ==
    With(Sub(t, t, o, "a"), LAMBDA d0 :
    With(Sub(w1, w1, o1, "a"), LAMBDA d1 :
    With(Sub(w2, w2, o2, "a"), LAMBDA d2 :
    [ret |-> IF d0.ret # 0 THEN d0.ret
             ELSE IF d1.ret # 0 THEN d1.ret ELSE d2.ret,
     t |-> d0.X, w1 |-> d1.X, w2 |-> d2.X])))

\* one pass of the do ... while (tu.nu != 0) loop;
\* st = [ret, tu, u1, u2, tv, v1, v2]
GcdBody(st, ta, tb) ==
    With(GcdHalve(st.tu, st.u1, st.u2, ta, tb), LAMBDA hu :
    IF hu.ret # 0 THEN [st EXCEPT !.ret = hu.ret]
    ELSE With(GcdHalve(st.tv, st.v1, st.v2, ta, tb), LAMBDA hv :
    IF hv.ret # 0 THEN [st EXCEPT !.ret = hv.ret]
    ELSE IF CompareMag(hu.t, hv.t) >= 0
    THEN With(GcdSubtract(hu.t, hu.w1, hu.w2, hv.t, hv.w1, hv.w2), LAMBDA sb :
         IF sb.ret # 0 THEN [st EXCEPT !.ret = sb.ret]
         ELSE [ret |-> 0, tu |-> sb.t, u1 |-> sb.w1, u2 |-> sb.w2,
               tv |-> hv.t, v1 |-> hv.w1, v2 |-> hv.w2])
    ELSE With(GcdSubtract(hv.t, hv.w1, hv.w2, hu.t, hu.w1, hu.w2), LAMBDA sb :
         IF sb.ret # 0 THEN [st EXCEPT !.ret = sb.ret]
         ELSE [ret |-> 0, tu |-> hu.t, u1 |-> hu.w1, u2 |-> hu.w2,
               tv |-> sb.t, v1 |-> sb.w1, v2 |-> sb.w2])))

\* the do ... while (tu.nu != 0) loop
RECURSIVE GcdLoop(_, _, _)
GcdLoop(st, ta, tb) ==
    With(GcdBody(st, ta, tb), LAMBDA nx :
    IF nx.ret = 0 /\ nx.tu.nu # 0 THEN GcdLoop(nx, ta, tb) ELSE nx)

\* the end of GCDExtBin: pY1->swap(v1); pY2->swap(v2); SetValue(tv);
\* ShiftLeft(*this, tg)
GcdFinish(v, Y1, hasY1, Y2, hasY2, st, tg) ==
    With(Copy(v, st.tv), LAMBDA c :
    With(IF c.ret = 0 /\ tg > 0 THEN ShiftLeft(c.X, c.X, tg, TRUE) ELSE c,
         LAMBDA g :
    [ret |-> g.ret, X |-> g.X, Y1 |-> IF hasY1 THEN st.v1 ELSE Y1,
     Y2 |-> IF hasY2 THEN st.v2 ELSE Y2]))

\* X.GCDExtBin(a, b, pY1, pY2), a null pY1 or pY2 being hasY1 or hasY2
\* FALSE; yields [ret, X, Y1, Y2]
GCDExtBin(v, x, y, Y1, hasY1, Y2, hasY2) ==
    IF x.nu = 0 \/ y.nu = 0
    THEN With(IF hasY1 THEN SetValue(Y1, 1) ELSE Ok(Y1), LAMBDA y1 :
         IF y1.ret # 0 THEN [ret |-> y1.ret, X |-> v, Y1 |-> y1.X, Y2 |-> Y2]
         ELSE With(IF hasY2 THEN SetValue(Y2, 0) ELSE Ok(Y2), LAMBDA y2 :
         IF y2.ret # 0 THEN [ret |-> y2.ret, X |-> v, Y1 |-> y1.X, Y2 |-> y2.X]
         ELSE [ret |-> SetValue(v, 0).ret, X |-> SetValue(v, 0).X,
               Y1 |-> y1.X, Y2 |-> y2.X]))
    ELSE With(GcdStrip(Copy(vlong_Init, x).X, Copy(vlong_Init, y).X, 0),
              LAMBDA sp :
         IF sp.ret # 0 THEN [ret |-> sp.ret, X |-> v, Y1 |-> Y1, Y2 |-> Y2]
         ELSE With(GcdLoop([ret |-> 0,
                            tu |-> Copy(vlong_Init, sp.ta).X,
                            u1 |-> SetValue(vlong_Init, 1).X,
                            u2 |-> SetValue(vlong_Init, 0).X,
                            tv |-> Copy(vlong_Init, sp.tb).X,
                            v1 |-> SetValue(vlong_Init, 0).X,
                            v2 |-> SetValue(vlong_Init, 1).X], sp.ta, sp.tb),
                   LAMBDA st :
              IF st.ret # 0
              THEN [ret |-> st.ret, X |-> v, Y1 |-> Y1, Y2 |-> Y2]
              ELSE GcdFinish(v, Y1, hasY1, Y2, hasY2, st, sp.tg)))

\* X.InvMod(a, n)
InvMod(v, x, m) ==
    IF x.s = MP_NEG \/ m.s = MP_NEG THEN Err(VLONG_ERR_NEGATIVE_ARG, v)
    ELSE With(GCDExtBin(vlong_Init, x, m, vlong_Init, TRUE, vlong_Init, FALSE),
              LAMBDA g :
         IF g.ret # 0 THEN Err(g.ret, v)
         ELSE IF g.X.nu = 1 /\ Rd(g.X, 0) = 1 THEN Ok(g.Y1)
         ELSE Err(VLONG_ERR_NO_INVERSE, v))

\* ------------------------------------------- modular exponentiation
\* prvPowModBarrett and prvPowModMontgomery are the same code but for the
\* reduction; kind tells it: 0 Barrett, 1 diminished radix (the redmode of
\* prvPowModBarrett), 2 Montgomery (mu is then the digit rho).
Redux(kind, x, m, mu) ==
    IF kind = 0 THEN prvReduceBarrett(x, m, mu)
    ELSE IF kind = 1 THEN prvReduceDR(x, m, mu)
    ELSE prvReduceMontgomery(x, m, mu)

\* CHECK( v.Mul(x, y) ); CHECK( redux(&v, n, mu) )
MulRedux(v, x, y, al, kind, m, mu) ==
    Bind(Mul(v, x, y, 0, al), LAMBDA p : Redux(kind, p, m, mu))

WinSize(bits) ==
    IF bits <= 7 THEN 2 ELSE IF bits <= 36 THEN 3 ELSE IF bits <= 140 THEN 4
    ELSE IF bits <= 450 THEN 5 ELSE IF bits <= 1303 THEN 6
    ELSE IF bits <= 3529 THEN 7 ELSE 8

\* Which multiplications a driver makes, and in which order, depends on the
\* exponent alone.  PowOp is one of them, dst = x * y reduced: the objects
\* 0 .. 2**w - 1 are the table M, and the object 2**w is the local res.
PowOp(dst, x, y, al) == [dst |-> dst, x |-> x, y |-> y, al |-> al]

\* for (x = 0; x < cnt; x++) g = g * g
PowSquareOps(g, cnt) == [i \in 1..cnt |-> PowOp(g, g, g, "ab")]

\* the table: M[2**(w-1)] by w - 1 squarings, then M[x] = M[x - 1] * M[1]
PowTableOps(w) ==
    PowSquareOps(2 ^ (w - 1), w - 1) \o
    [i \in 1..(2 ^ (w - 1) - 1) |->
        PowOp(2 ^ (w - 1) + i, 2 ^ (w - 1) + i - 1, 1, "none")]

\* bit pos of the exponent, counted over its nu digits
PowBit(e, pos) == (Rd(e, pos \div BiD) \div 2 ^ (pos % BiD)) % 2

\* the bits left in the window: square, and multiply by M[1] for a set bit
RECURSIVE PowTailOps(_, _, _)
PowTailOps(bitbuf, cnt, w) ==
    IF cnt = 0 THEN << >>
    ELSE <<PowOp(2 ^ w, 2 ^ w, 2 ^ w, "ab")>> \o
         (IF BitAnd(bitbuf * 2, 2 ^ w) # 0
          THEN <<PowOp(2 ^ w, 1, 2 ^ w, "b")>> ELSE << >>) \o
         PowTailOps(bitbuf * 2, cnt - 1, w)

\* the for (;;) loop over the bits of the exponent, from the top, and the
\* tail after it
RECURSIVE PowLoopOps(_, _, _, _, _, _)
PowLoopOps(e, pos, w, mode, bitcpy, bitbuf) ==
    IF pos < 0
    THEN (IF mode = 2 /\ bitcpy > 0 THEN PowTailOps(bitbuf, bitcpy, w)
          ELSE << >>)
    ELSE IF mode = 0 /\ PowBit(e, pos) = 0
    THEN PowLoopOps(e, pos - 1, w, mode, bitcpy, bitbuf)
    ELSE IF mode = 1 /\ PowBit(e, pos) = 0
    THEN <<PowOp(2 ^ w, 2 ^ w, 2 ^ w, "ab")>> \o
         PowLoopOps(e, pos - 1, w, mode, bitcpy, bitbuf)
    ELSE IF bitcpy + 1 = w
    THEN PowSquareOps(2 ^ w, w) \o
         <<PowOp(2 ^ w, BitOr(bitbuf, PowBit(e, pos)), 2 ^ w, "b")>> \o
         PowLoopOps(e, pos - 1, w, 1, 0, 0)
    ELSE PowLoopOps(e, pos - 1, w, 2, bitcpy + 1,
             BitOr(bitbuf, PowBit(e, pos) * 2 ^ (w - bitcpy - 1)))

\* the multiplications ops[i..] on the objects obj, up to the first error
RECURSIVE PowExec(_, _, _, _, _, _)
PowExec(obj, ops, i, kind, m, mu) ==
    IF i > Len(ops) THEN Ok(obj)
    ELSE With(MulRedux(obj[ops[i].dst], obj[ops[i].x], obj[ops[i].y],
                       ops[i].al, kind, m, mu), LAMBDA t :
         IF t.ret # 0 THEN Err(t.ret, obj)
         ELSE PowExec([obj EXCEPT ![ops[i].dst] = t.X], ops, i + 1,
                      kind, m, mu))

\* table, loop and tail, from M[1] and the start value of res; yields res
PowWindows(m1, res, e, w, kind, m, mu) ==
    Bind(Copy(vlong_Init, m1), LAMBDA mh :
    Bind(PowExec([x \in 0..(2 ^ w) |->
                     IF x = 1 THEN m1 ELSE IF x = 2 ^ (w - 1) THEN mh
                     ELSE IF x = 2 ^ w THEN res ELSE vlong_Init],
                 PowTableOps(w) \o PowLoopOps(e, e.nu * BiD - 1, w, 0, 0, 0),
                 1, kind, m, mu), LAMBDA obj :
    Ok(obj[2 ^ w])))

\* the setup of the reduction: mu, or rho for Montgomery
PowSetup(m, kind) ==
    IF kind = 0 THEN prvReduceBarrettSetup(m, vlong_Init)
    ELSE IF kind = 1 THEN prvReduceDRSetup(m, vlong_Init)
    ELSE With(prvReduceMontgomerySetup(m), LAMBDA su :
         [ret |-> su.ret, X |-> su.rho])

\* X.prvPowModBarrett(a, e, n, kind) for kind 0 and 1,
\* X.prvPowModMontgomery(a, e, n) for kind 2
prvPowMod(v, x, e, m, kind) ==
    BindOr(PowSetup(m, kind), v, LAMBDA mu :
    BindOr(IF kind = 2 THEN prvMontgomeryNorm(vlong_Init, m)
           ELSE SetValue(vlong_Init, 1), v, LAMBDA res :
    BindOr(IF kind = 2 THEN MulMod(vlong_Init, x, res, m, "none")
           ELSE Mod(vlong_Init, x, m, "none"), v, LAMBDA m1 :
    BindOr(PowWindows(m1, res, e, WinSize(GetNumBits(e)), kind, m, mu), v,
           LAMBDA pw :
    BindOr(IF kind = 2 THEN prvReduceMontgomery(pw, m, mu) ELSE Ok(pw), v,
           LAMBDA fin : Ok(fin))))))

\* the choice of the driver at the end of PowMod; a.d[0] of an object
\* without a buffer is read through a null pointer
PowModSelect(v, x, e, m) ==
    IF ~prvIsDrModulus(m) /\ Len(x.d) = 0 THEN Err(Crashed, v)
    ELSE prvPowMod(v, x, e, m,
                   IF prvIsDrModulus(m) THEN 1
                   ELSE IF Rd(x, 0) % 2 = 1 THEN 2 ELSE 0)

\* X.PowMod(a, udig_t e, n): the exponent object e2 borrows the digit as
\* its buffer and keeps nu = 0
PowMod_udig(v, x, e, m) ==
    IF m.s = MP_NEG THEN Err(VLONG_ERR_NEGATIVE_ARG, v)
    ELSE PowModSelect(v, x, [s |-> MP_ZPOS, nu |-> 0, d |-> <<e>>], m)

\* ------------------------------------------------- the represented integer
RECURSIVE MagOf(_, _)
MagOf(d, m) == IF m = 0 THEN 0 ELSE d[m] * B ^ (m - 1) + MagOf(d, m - 1)

\* |v| and v as integers: the nu used digits, little-endian, and the sign
Mag(v) == MagOf(v.d, v.nu)
Val(v) == IF v.s = MP_NEG THEN -Mag(v) ELSE Mag(v)

\* the clamp invariant and the sign of zero
Canonical(v) ==
    /\ v.nu <= Len(v.d)
    /\ v.nu = 0 \/ v.d[v.nu] # 0
    /\ v.nu = 0 => v.s = MP_ZPOS

Sgn(x) == IF x < 0 THEN -1 ELSE IF x > 0 THEN 1 ELSE 0
AbsInt(x) == IF x < 0 THEN -x ELSE x

\* ------------------------------------------------------------------ inputs
\* magnitudes: digit strings whose top digit is 1 or B-1 over lower digits
\* 0 and B-1 (carries and borrows run through all of them)
DigitStrings(m) ==
    {<< >>} \cup
    {lo \o <<t>> : lo \in UNION {[1..j -> {0, MP_MASK_DIG}] : j \in 0..(m - 1)},
                   t \in {1, MP_MASK_DIG}}

\* a canonical object holding sign sg and digits ds in a buffer that has
\* the digits of pad, left by an earlier larger value, above them
MkVlong(sg, ds, pad) ==
    [s |-> IF Len(ds) = 0 THEN MP_ZPOS ELSE sg, nu |-> Len(ds), d |-> ds \o pad]

\* the little-endian digits of the natural number m
RECURSIVE DigitsOf(_)
DigitsOf(m) == IF m = 0 THEN << >> ELSE <<m % B>> \o DigitsOf(m \div B)

\* a canonical object holding the integer x
OfInt(x) ==
    MkVlong(IF x < 0 THEN MP_NEG ELSE MP_ZPOS, DigitsOf(AbsInt(x)), << >>)

Operands(m) ==
    {MkVlong(sg, ds, pad) : sg \in {MP_ZPOS, MP_NEG}, ds \in DigitStrings(m),
                            pad \in {<< >>, <<MP_MASK_DIG>>}}

\* operands whose buffer holds the used digits only
Tight(m) ==
    {MkVlong(sg, ds, << >>) : sg \in {MP_ZPOS, MP_NEG}, ds \in DigitStrings(m)}

\* a receiver distinct from the arguments: fresh, or holding -3 in a buffer
\* that an earlier value left full of digits
Receivers ==
    {vlong_Init,
     [s |-> MP_NEG, nu |-> 1,
      d |-> <<3>> \o [j \in 1..(2 * MaxLimbs + 1) |-> MP_MASK_DIG]]}

\* every sdig_t but the most negative one
Scalars == (1 - B \div 2)..(B \div 2 - 1)

\* no GCDExtBin call is in progress
NoGcd ==
    [st |-> [ret |-> 0, tu |-> vlong_Init, u1 |-> vlong_Init,
             u2 |-> vlong_Init, tv |-> vlong_Init, v1 |-> vlong_Init,
             v2 |-> vlong_Init],
     ta |-> vlong_Init, tb |-> vlong_Init, tg |-> 0]

InitCommon ==
    /\ pc = "init" /\ op = "none" /\ alias = "none"
    /\ X \in Receivers
    /\ r = vlong_Init
    /\ ret = VLONG_SUCCESS
    /\ junk \in {0, MP_MASK_DIG}
    /\ depth = 0 /\ gst = NoGcd /\ buf = << >>

Done(name, how) == pc' = "done" /\ op' = name /\ alias' = how

\* ------------------------------------ calls with a signed-digit argument
\* The variable a keeps the argument as it was before the call, also when
\* the receiver is the object a itself; X is the receiver after the call.
InitShort ==
    /\ InitCommon
    /\ a \in Operands(MaxLimbs)
    /\ k \in Scalars
    /\ b = vlong_Init /\ n = vlong_Init
    /\ rd \in {0, 3}

\* X.Add(a, k), with X the object a itself or a distinct receiver
CallAddShort ==
    /\ pc = "init"
    /\ \E self \in BOOLEAN :
         /\ With(Add_sdig(IF self THEN a ELSE X, a, k, self), LAMBDA c :
                 X' = c.X /\ ret' = c.ret)
         /\ Done("Add_sdig", IF self THEN "a" ELSE "none")
    /\ UNCHANGED <<a, b, n, k, r, rd, junk, depth, gst, buf>>

\* X.Sub(a, k)
CallSubShort ==
    /\ pc = "init"
    /\ \E self \in BOOLEAN :
         /\ With(Sub_sdig(IF self THEN a ELSE X, a, k, self), LAMBDA c :
                 X' = c.X /\ ret' = c.ret)
         /\ Done("Sub_sdig", IF self THEN "a" ELSE "none")
    /\ UNCHANGED <<a, b, n, k, r, rd, junk, depth, gst, buf>>

\* X.Mul(a, k)
CallMulShort ==
    /\ pc = "init"
    /\ \E self \in BOOLEAN :
         /\ With(Mul_sdig(IF self THEN a ELSE X, a, k, self), LAMBDA c :
                 X' = c.X /\ ret' = c.ret)
         /\ Done("Mul_sdig", IF self THEN "a" ELSE "none")
    /\ UNCHANGED <<a, b, n, k, r, rd, junk, depth, gst, buf>>

\* X.Div(a, k, &rd)
CallDivShort ==
    /\ pc = "init"
    /\ \E self \in BOOLEAN :
         /\ With(Div_sdig(IF self THEN a ELSE X, a, k, self, rd), LAMBDA c :
                 X' = c.X /\ ret' = c.ret /\ rd' = c.r)
         /\ Done("Div_sdig", IF self THEN "a" ELSE "none")
    /\ UNCHANGED <<a, b, n, k, r, junk, depth, gst, buf>>

\* X.Mod(a, k)
CallModShort ==
    /\ pc = "init"
    /\ With(Mod_sdig(X, a, k), LAMBDA c : X' = c.X /\ ret' = c.ret)
    /\ Done("Mod_sdig", "none")
    /\ UNCHANGED <<a, b, n, k, r, rd, junk, depth, gst, buf>>

\* rd = a.ModDig(k)
CallModDig ==
    /\ pc = "init"
    /\ rd' = ModDig(a, k)
    /\ Done("ModDig", "none")
    /\ UNCHANGED <<X, a, b, n, k, r, ret, junk, depth, gst, buf>>

NextShort ==
    \/ CallAddShort
    \/ CallSubShort
    \/ CallMulShort
    \/ CallDivShort
    \/ CallModShort
    \/ CallModDig

SpecShort == InitShort /\ [][NextShort]_vars

\* ------------------------------------------ calls with two long arguments
\* how names the arguments that are the receiver itself: "a" for X.f(X, b),
\* "b" for X.f(a, X), "ab" for X.f(X, X), "none" for a distinct receiver.
\* The variables a and b keep the arguments as they were before the call.
Hows == {"none", "a", "b", "ab"}
Recv(how) == IF how = "none" THEN X ELSE IF how = "b" THEN b ELSE a
ArgB(how) == IF how = "ab" THEN a ELSE b

InitLong ==
    /\ InitCommon
    /\ a \in Operands(MaxLimbs)
    /\ b \in Operands(MaxLimbs)
    /\ k = 0 /\ rd = 0
    /\ n = vlong_Init

\* X.Add(a, b)
CallAdd ==
    /\ pc = "init"
    /\ \E how \in Hows :
         /\ With(Add(Recv(how), a, ArgB(how), how), LAMBDA c :
                 X' = c.X /\ ret' = c.ret)
         /\ Done("Add", how)
    /\ UNCHANGED <<a, b, n, k, r, rd, junk, depth, gst, buf>>

\* X.Sub(a, b)
CallSub ==
    /\ pc = "init"
    /\ \E how \in Hows :
         /\ With(Sub(Recv(how), a, ArgB(how), how), LAMBDA c :
                 X' = c.X /\ ret' = c.ret)
         /\ Done("Sub", how)
    /\ UNCHANGED <<a, b, n, k, r, rd, junk, depth, gst, buf>>

\* X.Sub(X, b) on the sum that X.Add(a, b) left in X, b a distinct object
CallSubBack ==
    /\ pc = "done" /\ op = "Add" /\ ret = VLONG_SUCCESS
    /\ alias \in {"none", "a"}
    /\ With(Sub(X, X, b, "a"), LAMBDA c : X' = c.X /\ ret' = c.ret)
    /\ pc' = "back" /\ op' = "Sub"
    /\ UNCHANGED <<alias, a, b, n, k, r, rd, junk, depth, gst, buf>>

NextAddSub ==
    \/ CallAdd
    \/ CallSub
    \/ CallSubBack

SpecAddSub == InitLong /\ [][NextAddSub]_vars

InitMul ==
    /\ InitCommon
    /\ a \in Operands(MaxLimbs)
    /\ b \in Tight(MaxLimbs)
    /\ k = 0 /\ rd = 0
    /\ n = vlong_Init

\* X.Mul(a, b), maxdigs left at its default 0
CallMul ==
    /\ pc = "init"
    /\ \E how \in Hows :
         /\ With(Mul(Recv(how), a, ArgB(how), 0, how), LAMBDA c :
                 X' = c.X /\ ret' = c.ret)
         /\ Done("Mul", how)
    /\ UNCHANGED <<a, b, n, k, r, rd, junk, depth, gst, buf>>

\* X.prvMulBaseline(a, b, a.nu + b.nu + 1) on a distinct receiver, as the
\* header's VLONG_KARATSUBA_MUL_CUTOFF selects it for short operands
CallMulBaseline ==
    /\ pc = "init"
    /\ a.nu > 0 /\ b.nu > 0
    /\ With(prvMulBaseline(X, a, b, a.nu + b.nu + 1), LAMBDA c :
            /\ X' = WithSign(c.X, IF a.s = b.s THEN MP_ZPOS ELSE MP_NEG)
            /\ ret' = c.ret)
    /\ Done("prvMulBaseline", "none")
    /\ UNCHANGED <<a, b, n, k, r, rd, junk, depth, gst, buf>>

NextMul ==
    \/ CallMul
    \/ CallMulBaseline

SpecMul == InitMul /\ [][NextMul]_vars

\* X.Div(a, b, &r), r a distinct object
CallDiv ==
    /\ pc = "init"
    /\ \E how \in {"none", "a", "b"} :
         /\ With(Div(Recv(how), a, b, how, r, TRUE, "none"), LAMBDA c :
                 X' = c.Q /\ r' = c.R /\ ret' = c.ret)
         /\ Done("Div", how)
    /\ UNCHANGED <<a, b, n, k, rd, junk, depth, gst, buf>>

\* X.Div(a, b), the remainder not asked for
CallDivNoRem ==
    /\ pc = "init"
    /\ \E how \in {"none", "a", "b"} :
         /\ With(Div(Recv(how), a, b, how, r, FALSE, "none"), LAMBDA c :
                 X' = c.Q /\ ret' = c.ret)
         /\ Done("DivNoRem", how)
    /\ UNCHANGED <<a, b, n, k, r, rd, junk, depth, gst, buf>>

\* X.Mod(a, b)
CallMod ==
    /\ pc = "init"
    /\ \E how \in {"none", "a", "b"} :
         /\ With(Mod(Recv(how), a, b, how), LAMBDA c :
                 X' = c.X /\ ret' = c.ret)
         /\ Done("Mod", how)
    /\ UNCHANGED <<a, b, n, k, r, rd, junk, depth, gst, buf>>

NextDiv ==
    \/ CallDiv
    \/ CallDivNoRem
    \/ CallMod

SpecDiv == InitLong /\ [][NextDiv]_vars

\* ------------------------------------------------------------ comparisons
InitCmp ==
    /\ pc = "init" /\ op = "none" /\ alias = "none"
    /\ X = vlong_Init /\ r = vlong_Init /\ n = vlong_Init
    /\ ret = VLONG_SUCCESS /\ rd = 0 /\ junk = 0 /\ depth = 0
    /\ gst = NoGcd /\ buf = << >>
    /\ a \in Operands(MaxLimbs)
    /\ \/ k \in Scalars /\ b = vlong_Init
       \/ k = 0 /\ b \in Operands(MaxLimbs)

\* ret = a.Compare(k)
CallCompareShort ==
    /\ pc = "init"
    /\ ret' = Compare_sdig(a, k)
    /\ Done("Compare_sdig", "none")
    /\ UNCHANGED <<X, a, b, n, k, r, rd, junk, depth, gst, buf>>

\* ret = a.Compare(b)
CallCompare ==
    /\ pc = "init"
    /\ ret' = Compare(a, b)
    /\ Done("Compare", "none")
    /\ UNCHANGED <<X, a, b, n, k, r, rd, junk, depth, gst, buf>>

\* ret = vlong::CompareMag(a, b)
CallCompareMag ==
    /\ pc = "init"
    /\ ret' = CompareMag(a, b)
    /\ Done("CompareMag", "none")
    /\ UNCHANGED <<X, a, b, n, k, r, rd, junk, depth, gst, buf>>

NextCmp ==
    \/ CallCompareShort
    \/ CallCompare
    \/ CallCompareMag

SpecCmp == InitCmp /\ [][NextCmp]_vars

\* ------------------------------------------- modular exponentiation
\* X.PowMod(a, b, n): b is the exponent e, n the modulus; the base a is not
\* negative.
PowDigits == {1, 2, 3, 6, MP_MASK_DIG}

PowBases ==
    {vlong_Init, MkVlong(MP_ZPOS, << >>, <<0>>)}
    \cup {MkVlong(MP_ZPOS, <<x>>, << >>) : x \in PowDigits}
    \cup {MkVlong(MP_ZPOS, <<x, 1>>, << >>) : x \in {0, 1, MP_MASK_DIG}}

PowExponents ==
    {vlong_Init, MkVlong(MP_NEG, <<1>>, << >>), MkVlong(MP_NEG, <<3>>, << >>)}
    \cup {MkVlong(MP_ZPOS, <<x>>, << >>) : x \in PowDigits}
    \cup {MkVlong(MP_ZPOS, <<x, y>>, << >>) : x \in {0, MP_MASK_DIG},
                                             y \in {1, MP_MASK_DIG}}

PowModuli ==
    {MkVlong(MP_NEG, <<3>>, << >>)}
    \cup {MkVlong(MP_ZPOS, <<x>>, << >>) : x \in PowDigits \cup {4, 7}}
    \cup {MkVlong(MP_ZPOS, <<x, y>>, << >>) : x \in {0, 1, 6},
                                             y \in {1, MP_MASK_DIG}}

InitPow ==
    /\ InitCommon
    /\ a \in PowBases
    /\ b \in PowExponents
    /\ n \in PowModuli
    /\ k = 0 /\ rd = 0

\* PowMod returns
PowReturn(c) ==
    /\ X' = c.X /\ ret' = c.ret
    /\ Done("PowMod", "none")
    /\ UNCHANGED depth

\* one activation of PowMod(a, e, n), up to its return or to the call of
\* PowMod(a, e, n) it makes for a negative exponent.  The nested call has
\* the same receiver and arguments, and its result is what every caller
\* returns; a call the stack has no room for ends the program.
PowModBody ==
    IF n.s = MP_NEG THEN PowReturn(Err(VLONG_ERR_NEGATIVE_ARG, X))
    ELSE IF b.s = MP_NEG
    THEN With(InvMod(vlong_Init, a, n), LAMBDA tmpG :
         IF tmpG.ret # 0 THEN PowReturn(Err(tmpG.ret, X))
         ELSE IF depth = MaxDepth THEN PowReturn(Err(Crashed, X))
         ELSE /\ pc' = "call" /\ op' = "PowMod" /\ depth' = depth + 1
              /\ UNCHANGED <<alias, X, ret>>)
    ELSE PowReturn(PowModSelect(X, a, b, n))

CallPowMod ==
    /\ pc = "init"
    /\ PowModBody
    /\ UNCHANGED <<a, b, n, k, r, rd, junk, gst, buf>>

NestedPowMod ==
    /\ pc = "call"
    /\ PowModBody
    /\ UNCHANGED <<a, b, n, k, r, rd, junk, gst, buf>>

\* X.PowMod(a, e, n) with a digit e, kept in k
CallPowModDig ==
    /\ pc = "init"
    /\ \E e \in PowDigits :
         /\ With(PowMod_udig(X, a, e, n), LAMBDA c : X' = c.X /\ ret' = c.ret)
         /\ k' = e
    /\ Done("PowMod_udig", "none")
    /\ UNCHANGED <<a, b, n, r, rd, junk, depth, gst, buf>>

CallInvMod ==
    /\ pc = "init"
    /\ With(InvMod(X, a, n), LAMBDA c : X' = c.X /\ ret' = c.ret)
    /\ Done("InvMod", "none")
    /\ UNCHANGED <<a, b, n, k, r, rd, junk, depth, gst, buf>>

NextPow ==
    \/ CallPowMod
    \/ NestedPowMod
    \/ CallPowModDig
    \/ CallInvMod

SpecPow == InitPow /\ [][NextPow]_vars

\* ================================================================ claims
\* the truncating quotient and its remainder
TruncDiv(x, y) == Sgn(x) * Sgn(y) * (AbsInt(x) \div AbsInt(y))
TruncRem(x, y) == x - y * TruncDiv(x, y)

ShortWriters == {"Add_sdig", "Sub_sdig", "Mul_sdig", "Div_sdig", "Mod_sdig"}

\* C1: after a successful public operation the vlong it wrote is canonical:
\* no leading zero digit, sign + when it has no digits, and isZero exactly
\* when its value is 0 (stated here for the calls with a signed-digit
\* argument, X.Mul(a, 0) among them)
C1_Canonical ==
    (pc = "done" /\ ret = VLONG_SUCCESS /\ op \in ShortWriters)
        => Canonical(X) /\ (isZero(X) <=> Val(X) = 0)

\* C2: for b # 0, X.Div(a, b, &r) succeeds with a = X*b + r, |r| < |b|,
\* r = 0 or of a's sign, X = 0 or of sign sign(a)*sign(b); for |a| < |b|
\* the quotient is 0 and r = a, for |a| = |b| the quotient is +-1 and r = 0
C2_DivEuclid ==
    (pc = "done" /\ op = "Div" /\ b.nu # 0)
        => /\ ret = VLONG_SUCCESS
           /\ Val(a) = Val(X) * Val(b) + Val(r)
           /\ AbsInt(Val(r)) < AbsInt(Val(b))
           /\ Val(r) = 0 \/ Sgn(Val(r)) = Sgn(Val(a))
           /\ Val(X) = 0 \/ Sgn(Val(X)) = Sgn(Val(a)) * Sgn(Val(b))
           /\ Mag(a) < Mag(b) => Val(X) = 0 /\ Val(r) = Val(a)
           /\ Mag(a) = Mag(b) => AbsInt(Val(X)) = 1 /\ Val(r) = 0

\* C3: X.Add(a, k) and X.Sub(a, k) with a signed digit k, of any sign and
\* 0 included, leave a + k and a - k in X, X being a itself or not
C3_ShortAddSub ==
    /\ (pc = "done" /\ op = "Add_sdig")
          => ret = VLONG_SUCCESS /\ Val(X) = Val(a) + k
    /\ (pc = "done" /\ op = "Sub_sdig")
          => ret = VLONG_SUCCESS /\ Val(X) = Val(a) - k

\* C4: X.Add(a, b) and X.Sub(a, b) leave a + b and a - b in X, canonical
\* (a zero result has sign +), for every pair of signs and lengths and for
\* the receiver being a, b, both or neither; subtracting b from the sum
\* a + b gives a back
C4_LongAddSub ==
    /\ (pc = "done" /\ op = "Add")
          => /\ ret = VLONG_SUCCESS
             /\ Val(X) = Val(a) + Val(ArgB(alias))
             /\ Canonical(X)
    /\ (pc = "done" /\ op = "Sub")
          => /\ ret = VLONG_SUCCESS
             /\ Val(X) = Val(a) - Val(ArgB(alias))
             /\ Canonical(X)
    /\ pc = "back"
          => ret = VLONG_SUCCESS /\ Val(X) = Val(a) /\ Canonical(X)

\* a borrow has run through all the digits of a full-length difference of
\* operands the receiver is one of, and the sum has been taken back
C4_Witness ==
    /\ pc = "back" /\ alias = "a"
    /\ a.nu = MaxLimbs /\ b.nu = MaxLimbs /\ a.s # b.s
    /\ X.nu = MaxLimbs /\ Val(X) = Val(a)

\* pairwise coprime moduli whose product exceeds every product of two
\* operands
Moduli == {8161, 8167, 8171, 8179, 8191}

\* |v| modulo p, from the top digit down
RECURSIVE MagModOf(_, _, _, _)
MagModOf(d, i, m, p) ==
    IF i > m THEN 0 ELSE (d[i] + B * MagModOf(d, i + 1, m, p)) % p

MagMod(v, p) == MagModOf(v.d, 1, v.nu, p)

\* |v| = |x| * |y|: v has no more digits than the product can have, and the
\* two sides agree modulo every modulus
IsProduct(v, x, y) ==
    /\ v.nu <= x.nu + y.nu
    /\ \A p \in Moduli : MagMod(v, p) = (MagMod(x, p) * MagMod(y, p)) % p

\* C5: X.Mul(a, b) with maxdigs = 0 leaves exactly a * b in X, canonical,
\* with sign + iff the signs agree or the product is 0, for the receiver
\* being a, b, both or neither; the schoolbook multiplication and the
\* Karatsuba one give the same product
C5_Mul ==
    /\ (pc = "done" /\ op = "Mul")
          => /\ ret = VLONG_SUCCESS
             /\ IsProduct(X, a, ArgB(alias))
             /\ Canonical(X)
             /\ X.s = MP_ZPOS <=> (a.s = ArgB(alias).s \/ X.nu = 0)
    /\ (pc = "done" /\ op = "prvMulBaseline")
          => ret = VLONG_SUCCESS /\ IsProduct(X, a, b) /\ Canonical(X)

\* a negative full-length operand has been squared in place by the
\* Karatsuba multiplication
C5_Witness ==
    /\ pc = "done" /\ op = "Mul" /\ alias = "ab"
    /\ a.nu = MaxLimbs /\ a.nu >= VLONG_KARATSUBA_MUL_CUTOFF /\ a.s = MP_NEG
    /\ X.nu = 2 * MaxLimbs /\ X.s = MP_ZPOS

\* C6: X.Div(a, k, &rd) with a signed digit k # 0 gives a = X*k + rd with
\* |rd| < |k| and rd = 0 or of a's sign; X.Mod(a, k) and a.ModDig(k) give
\* that same remainder
C6_ShortDiv ==
    /\ (pc = "done" /\ op = "Div_sdig" /\ k # 0)
          => /\ ret = VLONG_SUCCESS
             /\ Val(a) = Val(X) * k + rd
             /\ AbsInt(rd) < AbsInt(k)
             /\ rd = 0 \/ Sgn(rd) = Sgn(Val(a))
    /\ (pc = "done" /\ op = "Mod_sdig" /\ k # 0)
          => ret = VLONG_SUCCESS /\ Val(X) = TruncRem(Val(a), k)
    /\ (pc = "done" /\ op = "ModDig" /\ k # 0)
          => rd = TruncRem(Val(a), k)

\* C7: Compare, with a signed digit or a vlong, returns -1, 0 or +1 as the
\* integer a is below, equal to or above the comparand; CompareMag does so
\* for |a| against |b|
C7_Compare ==
    /\ (pc = "done" /\ op = "Compare_sdig") => ret = Sgn(Val(a) - k)
    /\ (pc = "done" /\ op = "Compare") => ret = Sgn(Val(a) - Val(b))
    /\ (pc = "done" /\ op = "CompareMag") => ret = Sgn(Mag(a) - Mag(b))

\* x^e mod m on the integers, by squaring
RECURSIVE PowRef(_, _, _)
PowRef(x, e, m) ==
    IF e = 0 THEN 1 % m
    ELSE With(PowRef(x, e \div 2, m), LAMBDA h :
         IF e % 2 = 1 THEN (((h * h) % m) * (x % m)) % m ELSE (h * h) % m)

RECURSIVE Gcd(_, _)
Gcd(x, y) == IF y = 0 THEN x ELSE Gcd(y, x % y)

\* the inverse of x modulo m, for coprime x and m
InvRef(x, m) == CHOOSE i \in 0..(m - 1) : (i * x) % m = 1 % m

\* C8: for a >= 0, e >= 0 and n > 0, X.PowMod(a, e, n) succeeds and leaves
\* X = a^e mod n with 0 <= X < n, whatever the parities of a and n and
\* whichever reduction the call selects
C8_PowMod ==
    (pc = "done" /\ op = "PowMod" /\ b.s = MP_ZPOS /\ n.s = MP_ZPOS /\ n.nu > 0)
        => /\ ret = VLONG_SUCCESS
           /\ Val(X) = PowRef(Val(a), Val(b), Val(n))
           /\ 0 <= Val(X) /\ Val(X) < Val(n)

\* C9: for n > 0 and a digit e, X.PowMod(a, udig_t e, n) leaves the same X
\* as X.PowMod(a, vlong(e), n), namely a^e mod n
C9_PowModDig ==
    (pc = "done" /\ op = "PowMod_udig" /\ n.s = MP_ZPOS /\ n.nu > 0)
        => /\ ret = PowModSelect(vlong_Init, a, SetValue(vlong_Init, k).X, n).ret
           /\ Val(X) =
                Val(PowModSelect(vlong_Init, a, SetValue(vlong_Init, k).X, n).X)
           /\ ret = VLONG_SUCCESS
           /\ Val(X) = PowRef(Val(a), k, Val(n))

\* C10: for e < 0, n > 0 and a >= 0, X.PowMod(a, e, n) ends by returning:
\* with a coprime to n it succeeds and leaves (a^(-1))^|e| mod n in X, and
\* with a that has no inverse it returns the error of InvMod
C10_PowModNegative ==
    (pc = "done" /\ op = "PowMod" /\ b.s = MP_NEG /\ n.s = MP_ZPOS /\ n.nu > 0)
        => IF Gcd(Val(a), Val(n)) = 1
           THEN /\ ret = VLONG_SUCCESS
                /\ Val(X) = PowRef(InvRef(Val(a), Val(n)), Mag(b), Val(n))
           ELSE ret = VLONG_ERR_NO_INVERSE

\* C11: for a >= 0 and n > 0 of any parity X.InvMod(a, n) returns: with
\* success and X*a = 1 (mod n) when gcd(a, n) = 1, with
\* VLONG_ERR_NO_INVERSE when gcd(a, n) # 1; with a negative a or n it
\* returns VLONG_ERR_NEGATIVE_ARG
C11_InvMod ==
    (pc = "done" /\ op = "InvMod")
        => IF a.s = MP_NEG \/ n.s = MP_NEG THEN ret = VLONG_ERR_NEGATIVE_ARG
           ELSE n.nu > 0
                => IF Gcd(Val(a), Val(n)) = 1
                   THEN /\ ret = VLONG_SUCCESS
                        /\ (Val(X) * Val(a)) % Val(n) = 1 % Val(n)
                   ELSE ret = VLONG_ERR_NO_INVERSE

\* ------------------------------------------- GCDExtBin, pass by pass
\* A call X.GCDExtBin(a, b, &r, &n): r and n are the objects handed in for
\* the cofactors y1 and y2.  Every pass of the do ... while loop is a step,
\* so that a call whose loop does not end is a behaviour that stays at
\* pc = "loop".
GcdValues == {0, 1, 2, 3, 4, 6, 7, 9, 12, 18, 735, 1239}

GcdOperands == {OfInt(x) : x \in GcdValues} \cup {OfInt(-x) : x \in GcdValues}

InitGcd ==
    /\ InitCommon
    /\ a \in GcdOperands /\ b \in GcdOperands
    /\ n = vlong_Init /\ k = 0 /\ rd = 0

\* the call has returned c = [ret, X, Y1, Y2]
GcdReturn(c) ==
    /\ X' = c.X /\ r' = c.Y1 /\ n' = c.Y2 /\ ret' = c.ret
    /\ Done("GCDExtBin", "none")
    /\ gst' = NoGcd

\* the call up to the do ... while loop
CallGCDExtBin ==
    /\ pc = "init"
    /\ IF a.nu = 0 \/ b.nu = 0
       THEN GcdReturn(GCDExtBin(X, a, b, r, TRUE, n, TRUE))
       ELSE With(GcdStrip(Copy(vlong_Init, a).X, Copy(vlong_Init, b).X, 0),
                 LAMBDA sp :
            IF sp.ret # 0
            THEN GcdReturn([ret |-> sp.ret, X |-> X, Y1 |-> r, Y2 |-> n])
            ELSE /\ gst' = [st |-> [ret |-> 0,
                                    tu |-> Copy(vlong_Init, sp.ta).X,
                                    u1 |-> SetValue(vlong_Init, 1).X,
                                    u2 |-> SetValue(vlong_Init, 0).X,
                                    tv |-> Copy(vlong_Init, sp.tb).X,
                                    v1 |-> SetValue(vlong_Init, 0).X,
                                    v2 |-> SetValue(vlong_Init, 1).X],
                            ta |-> sp.ta, tb |-> sp.tb, tg |-> sp.tg]
                 /\ pc' = "loop" /\ op' = "GCDExtBin"
                 /\ UNCHANGED <<alias, X, r, n, ret>>)
    /\ UNCHANGED <<a, b, k, rd, junk, depth, buf>>

\* one pass of the loop, and the end of the call after the last one
GcdPass ==
    /\ pc = "loop"
    /\ With(GcdBody(gst.st, gst.ta, gst.tb), LAMBDA nx :
       IF nx.ret # 0
       THEN GcdReturn([ret |-> nx.ret, X |-> X, Y1 |-> r, Y2 |-> n])
       ELSE IF nx.tu.nu # 0
       THEN /\ gst' = [gst EXCEPT !.st = nx]
            /\ UNCHANGED <<pc, op, alias, X, r, n, ret>>
       ELSE GcdReturn(GcdFinish(X, r, TRUE, n, TRUE, nx, gst.tg)))
    /\ UNCHANGED <<a, b, k, rd, junk, depth, buf>>

NextGcd ==
    \/ CallGCDExtBin
    \/ GcdPass

SpecGcd == InitGcd /\ [][NextGcd]_vars

\* C12: X.GCDExtBin(a, b, &y1, &y2) returns, for a and b of any sign and
\* zero, with X = gcd(|a|, |b|) (the other argument when one is zero) and
\* X = y1*a + y2*b; for a = b = 0 it returns (0, 1, 0)
C12_GcdExt ==
    (pc = "done" /\ op = "GCDExtBin")
        => /\ ret = VLONG_SUCCESS
           /\ Val(X) = Gcd(Mag(a), Mag(b))
           /\ Val(X) = Val(r) * Val(a) + Val(n) * Val(b)
           /\ (a.nu = 0 /\ b.nu = 0)
                 => Val(X) = 0 /\ Val(r) = 1 /\ Val(n) = 0

\* ------------------------------------------------------------ PowModCRT
\* X.PowMod(a, e, n) as a function of its arguments: the call with a
\* negative exponent and an invertible a calls itself with the same
\* arguments until the stack is exhausted
PowMod(v, x, e, m) ==
    IF m.s = MP_NEG THEN Err(VLONG_ERR_NEGATIVE_ARG, v)
    ELSE IF e.s = MP_NEG
    THEN With(InvMod(vlong_Init, x, m), LAMBDA tmpG :
         IF tmpG.ret # 0 THEN Err(tmpG.ret, v) ELSE Err(Crashed, v))
    ELSE PowModSelect(v, x, e, m)

\* X.PowModCRT(a, p, q, dp, dq, qp); al tells whether an argument is the
\* receiver itself, in which case the result is built in tmp1
PowModCRT(v, x, p, q, dp, dq, qp, al) ==
    BindOr(PowMod(vlong_Init, x, dp, p), v, LAMBDA t1 :
    BindOr(PowMod(vlong_Init, x, dq, q), v, LAMBDA t2 :
    BindOr(Sub(IF al THEN vlong_Init ELSE v, t1, t2, "none"), v, LAMBDA x1 :
    BindOr(Mul(t1, x1, qp, 0, "none"), IF al THEN v ELSE x1, LAMBDA t3 :
    BindOr(Mod(x1, t3, p, "none"), IF al THEN v ELSE x1, LAMBDA x2 :
    BindOr(Mul(t3, x2, q, 0, "none"), IF al THEN v ELSE x2, LAMBDA t4 :
    BindOr(Add(x2, t4, t2, "none"), IF al THEN v ELSE x2, LAMBDA x3 :
    Ok(IF al THEN prvMovePtr(v, x3) ELSE x3))))))))

\* primes: single digits, and two-digit ones the Montgomery and Barrett
\* drivers are selected for
CrtPrimes == {2, 3, 5, 7, 13, 17, 19}

\* the private exponents
CrtExponents == 1..5

\* the call X.PowModCRT(a, n, b, dp, dq, qp) with the primes p in n and q in
\* b, a below p*q, and the exponent d in k
InitCrt ==
    /\ InitCommon
    /\ \E p \in CrtPrimes : \E q \in CrtPrimes \ {p} :
          /\ n = OfInt(p) /\ b = OfInt(q)
          /\ a \in {OfInt(x) : x \in ((0..7) \cup {p, q, p * q - 2, p * q - 1})
                                     \cap (0..(p * q - 1))}
    /\ k \in CrtExponents /\ rd = 0

CallPowModCRT ==
    /\ pc = "init"
    /\ \E al \in BOOLEAN :
          /\ With(PowModCRT(IF al THEN a ELSE X, a, n, b,
                            OfInt(k % (Val(n) - 1)), OfInt(k % (Val(b) - 1)),
                            OfInt(InvRef(Val(b), Val(n))), al),
                  LAMBDA c : X' = c.X /\ ret' = c.ret)
          /\ Done("PowModCRT", IF al THEN "a" ELSE "none")
    /\ UNCHANGED <<a, b, n, k, r, rd, junk, depth, gst, buf>>

\* the same power by PowMod with the modulus p*q
CallPowModProduct ==
    /\ pc = "init"
    /\ With(PowMod(X, a, OfInt(k), OfInt(Val(n) * Val(b))),
            LAMBDA c : X' = c.X /\ ret' = c.ret)
    /\ Done("PowMod", "none")
    /\ UNCHANGED <<a, b, n, k, r, rd, junk, depth, gst, buf>>

NextCrt ==
    \/ CallPowModCRT
    \/ CallPowModProduct

SpecCrt == InitCrt /\ [][NextCrt]_vars

\* C13: for distinct primes p and q, an exponent d and 0 <= a < p*q,
\* X.PowModCRT(a, p, q, d mod (p-1), d mod (q-1), q^(-1) mod p) succeeds and
\* leaves X = a^d mod p*q, with 0 <= X < p*q
C13_PowModCRT ==
    (pc = "done" /\ op = "PowModCRT")
        => /\ ret = VLONG_SUCCESS
           /\ Val(X) = PowRef(Val(a), k, Val(n) * Val(b))
           /\ 0 <= Val(X) /\ Val(X) < Val(n) * Val(b)

\* ------------------------------------- ModBarrett, ModMontgomery, ModDRExt
\* X.ModBarrett(a, b) for kind 0, X.ModDRExt(a, b) for kind 1 and
\* X.ModMontgomery(a, b) for kind 2: the setup of the reduction, SetValue(a)
\* unless a is the receiver, and the reduction of the receiver
ModReduce(v, x, m, kind, aIsX) ==
    BindOr(PowSetup(m, kind), v, LAMBDA mu :
    BindOr(IF aIsX THEN Ok(v) ELSE Copy(v, x), v, LAMBDA c :
    Redux(kind, c, m, mu)))

ModBarrett(v, x, m, aIsX) == ModReduce(v, x, m, 0, aIsX)

ModDRExt(v, x, m, aIsX) == ModReduce(v, x, m, 1, aIsX)

ModMontgomery(v, x, m, aIsX) == ModReduce(v, x, m, 2, aIsX)

\* at least half of the digits of v are all-ones
HalfOnes(v) == 2 * CountFull(v.d, v.nu) >= v.nu

\* moduli of one and two digits: odd and even ones, with no, one and two
\* all-ones digits
RedModuli ==
    {1, 2, 3, 6, 9, MP_MASK_DIG, B + 1, B + 3, 2 * B, 2 * B - 1,
     B * MP_MASK_DIG, B * MP_MASK_DIG + 7, B * B - 1}

\* the modulus in n and the argument in a, 0 <= a < n*n, the multiples of
\* n among them
InitRed ==
    /\ InitCommon
    /\ \E m \in RedModuli :
          /\ n = OfInt(m)
          /\ a \in {OfInt(x) : x \in {0, 1, 2, m - 1, m, m + 1, 2 * m, 3 * m + 1,
                                      m * m - m, m * m - 1} \cap (0..(m * m - 1))}
    /\ b = vlong_Init /\ k = 0 /\ rd = 0

\* the call X.f(a, n) with the receiver a itself or not
RedCall(name, F(_, _, _, _)) ==
    /\ pc = "init"
    /\ \E aIsX \in BOOLEAN :
          /\ With(F(IF aIsX THEN a ELSE X, a, n, aIsX),
                  LAMBDA c : X' = c.X /\ ret' = c.ret)
          /\ Done(name, IF aIsX THEN "a" ELSE "none")
    /\ UNCHANGED <<a, b, n, k, r, rd, junk, depth, gst, buf>>

CallModBarrett == RedCall("ModBarrett", ModBarrett)

CallModMontgomery == Rd(n, 0) % 2 = 1 /\ RedCall("ModMontgomery", ModMontgomery)

CallModDRExt == HalfOnes(n) /\ RedCall("ModDRExt", ModDRExt)

CallModPlain ==
    /\ pc = "init"
    /\ With(Mod(X, a, n, "none"), LAMBDA c : X' = c.X /\ ret' = c.ret)
    /\ Done("Mod", "none")
    /\ UNCHANGED <<a, b, n, k, r, rd, junk, depth, gst, buf>>

NextRed ==
    \/ CallModBarrett
    \/ CallModMontgomery
    \/ CallModDRExt
    \/ CallModPlain

SpecRed == InitRed /\ [][NextRed]_vars

\* C14: for 0 <= x < n*n, the multiples of n among them, X.ModBarrett(x, n)
\* (n > 0), X.ModMontgomery(x, n) (n odd) and X.ModDRExt(x, n) (half of the
\* digits of n all-ones) each succeed and leave x mod n in X, as
\* X.Mod(x, n) does
C14_Reductions ==
    (pc = "done" /\ op \in {"ModBarrett", "ModMontgomery", "ModDRExt", "Mod"})
        => ret = VLONG_SUCCESS /\ Val(X) = Val(a) % Val(n)

\* ---------------------------------------------------------------- IsPrime
\* the small primes tried before the Miller-Rabin rounds: the primes that a
\* signed digit holds (the table of the source is cut in the same way for
\* its narrowest digit)
ltm_prime_tab == <<2, 3, 5, 7>>

\* zero low bits of a nibble
lnz == <<4, 0, 1, 0, 2, 0, 1, 0, 3, 0, 1, 0, 2, 0, 1, 0>>

\* for (i = 0; i < nu && d[i] == 0; i++);
RECURSIVE LsbDigit(_, _)
LsbDigit(v, i) == IF i < v.nu /\ Rd(v, i) = 0 THEN LsbDigit(v, i + 1) ELSE i

\* do { qq = q & 15; i += lnz[qq]; q >>= 4; } while (qq == 0);
RECURSIVE LsbScan(_, _)
LsbScan(q, i) ==
    IF q % 16 = 0 THEN LsbScan(q \div 16, i + lnz[1])
    ELSE i + lnz[(q % 16) + 1]

GetNumLSB(v) ==
    IF isZero(v) THEN 0
    ELSE With(LsbDigit(v, 0), LAMBDA i :
         IF Rd(v, i) % 2 = 0 THEN LsbScan(Rd(v, i), i * BiD)
         ELSE i * BiD)

GetNumMSB(v) == GetNumBits(v)

\* while ((j <= (lsb - 1)) && y.Compare(n1) != MP_EQ) of the Miller-Rabin
\* round, and the test after it
RECURSIVE MillerRabinLoop(_, _, _, _, _)
MillerRabinLoop(y, j, lsb, n1, x) ==
    IF j <= lsb - 1 /\ Compare(y, n1) # MP_EQ
    THEN With(MulMod(y, y, y, x, "a"), LAMBDA sq :
         IF sq.ret # 0 THEN [ret |-> sq.ret, bPrime |-> FALSE]
         ELSE IF Compare_sdig(sq.X, 1) = MP_EQ
         THEN [ret |-> 0, bPrime |-> FALSE]
         ELSE MillerRabinLoop(sq.X, j + 1, lsb, n1, x))
    ELSE [ret |-> 0, bPrime |-> Compare(y, n1) = MP_EQ]

\* a Miller-Rabin round that ends with the status e and bPrime = false
RoundFails(e) == [ret |-> e, bPrime |-> FALSE]

\* prvIsMillerRabinPrime from "if y != 1 and y != n1 do"; y is what
\* PowMod left, whose status is not looked at
MillerRabinTest(x, n1, lsb, y) ==
    IF y.ret = Crashed THEN RoundFails(Crashed)
    ELSE IF Compare_sdig(y.X, 1) # MP_EQ /\ Compare(y.X, n1) # MP_EQ
    THEN MillerRabinLoop(y.X, 1, lsb, n1, x)
    ELSE [ret |-> 0, bPrime |-> TRUE]

\* CHECK( r.ShiftRight(r, lsb) ); y.PowMod(b, r, a);
MillerRabinPow(x, bb, n1, lsb, sh) ==
    IF sh.ret # 0 THEN RoundFails(sh.ret)
    ELSE MillerRabinTest(x, n1, lsb, PowMod(vlong_Init, bb, sh.X, x))

\* CHECK( r.SetValue(n1) ); lsb = (int) r.GetNumLSB();
MillerRabinSplit(x, bb, n1, c2) ==
    IF c2.ret # 0 THEN RoundFails(c2.ret)
    ELSE MillerRabinPow(x, bb, n1, GetNumLSB(c2.X),
                        ShiftRight(c2.X, c2.X, GetNumLSB(c2.X), TRUE))

\* CHECK( n1.Sub(n1, 1) );
MillerRabinMinus(x, bb, n1) ==
    IF n1.ret # 0 THEN RoundFails(n1.ret)
    ELSE MillerRabinSplit(x, bb, n1.X, Copy(vlong_Init, n1.X))

\* CHECK( n1.SetValue(a) );
MillerRabinCopy(x, bb, c1) ==
    IF c1.ret # 0 THEN RoundFails(c1.ret)
    ELSE MillerRabinMinus(x, bb, Sub_sdig(c1.X, c1.X, 1, TRUE))

\* prvIsMillerRabinPrime(a, b, bPrime): the round of a to the base bb
prvIsMillerRabinPrime(x, bb) ==
    IF Compare_sdig(x, 1) # MP_GT THEN RoundFails(VLONG_ERR_BAD_ARG_1)
    ELSE MillerRabinCopy(x, bb, Copy(vlong_Init, x))

\* the small-factor stage of IsPrime: "true", "false", or "rounds" when the
\* Miller-Rabin rounds decide
RECURSIVE SmallFactors(_, _)
SmallFactors(v, i) ==
    IF i > Len(ltm_prime_tab) THEN "rounds"
    ELSE IF Compare_sdig(v, ltm_prime_tab[i]) # MP_GT THEN "true"
    ELSE IF ModDig(v, ltm_prime_tab[i]) = 0 THEN "false"
    ELSE SmallFactors(v, i + 1)

IsPrimeStage(v) ==
    IF v.nu = 0 THEN "false"
    ELSE IF Rd(v, 0) % 2 = 0 THEN "false"
    ELSE SmallFactors(v, 1)

\* the number of rounds for a number of j bits
NumTrials(j) ==
    IF j > 1300 THEN 1 ELSE IF j > 850 THEN 3 ELSE IF j > 650 THEN 4
    ELSE IF j > 350 THEN 8 ELSE IF j > 250 THEN 12
    ELSE IF j > 150 THEN 18 ELSE 27

\* b.GenRandomBytes(nu * CiD) with the bytes the generator returned as the
\* digits ds: nu is set to the digit count whatever the bytes are
GenRandomBytes(ds) ==
    [s |-> MP_ZPOS, nu |-> Len(ds), d |-> ds \o <<0>>]

\* b.d[0] |= 3; ret = prvIsMillerRabinPrime(*this, b, bPrime);
IsPrimeBase(v, sh) ==
    IF sh.ret # VLONG_SUCCESS THEN RoundFails(sh.ret)
    ELSE prvIsMillerRabinPrime(v,
             [sh.X EXCEPT !.d = Wr(sh.X.d, 0, BitOr(Rd(sh.X, 0), 3))])

\* the base b0 shifted below the number
IsPrimeShift(v, b0) ==
    IF GetNumMSB(b0) >= GetNumMSB(v)
    THEN ShiftRight(b0, b0, GetNumMSB(b0) - GetNumMSB(v) + 1, TRUE)
    ELSE Ok(b0)

\* one pass of for (i = 0; i < n; i++) of IsPrime with the random bytes ds
IsPrimeTrial(v, ds) == IsPrimeBase(v, IsPrimeShift(v, GenRandomBytes(ds)))

\* the numbers IsPrime is called on
PrimeCandidates ==
    ((0 - 9)..32) \cup {121, 221, 561, 1105}

\* the values a digit of random bytes takes
RandDigits == {0, 3, 10, 15}

InitPrime ==
    /\ pc = "init" /\ op = "none" /\ alias = "none"
    /\ a \in {OfInt(x) : x \in PrimeCandidates}
    /\ X = vlong_Init /\ b = vlong_Init /\ n = vlong_Init /\ r = vlong_Init
    /\ k = 0 /\ rd = 0 /\ ret = 0 /\ junk = 0 /\ depth = 0
    /\ gst = NoGcd /\ buf = << >>

\* a.IsPrime() up to the first Miller-Rabin round; ret is the value
\* returned, 1 for true
CallIsPrime ==
    /\ pc = "init"
    /\ With(IsPrimeStage(a), LAMBDA st :
         IF st = "rounds"
         THEN pc' = "trial" /\ op' = "IsPrime" /\ UNCHANGED <<alias, ret>>
         ELSE ret' = (IF st = "true" THEN 1 ELSE 0) /\ Done("IsPrime", "none"))
    /\ UNCHANGED <<X, a, b, n, k, r, rd, junk, depth, gst, buf>>

\* what IsPrime does with the result t of round i
IsPrimeAfter(t, i) ==
    IF t.ret = Crashed THEN ret' = Crashed /\ pc' = "done"
    ELSE IF ~t.bPrime \/ t.ret # VLONG_SUCCESS THEN ret' = 0 /\ pc' = "done"
    ELSE IF i + 1 = NumTrials(GetNumMSB(a)) THEN ret' = 1 /\ pc' = "done"
    ELSE UNCHANGED <<ret, pc>>

\* round k of a.IsPrime() with the random bytes ds, and the return after the
\* last round
IsPrimeRound ==
    /\ pc = "trial" /\ k < NumTrials(GetNumMSB(a))
    /\ \E ds \in [1..a.nu -> RandDigits] : IsPrimeAfter(IsPrimeTrial(a, ds), k)
    /\ k' = k + 1
    /\ UNCHANGED <<op, alias, X, a, b, n, r, rd, junk, depth, gst, buf>>

NextPrime ==
    \/ CallIsPrime
    \/ IsPrimeRound

SpecPrime == InitPrime /\ [][NextPrime]_vars

\* C15: IsPrime returns false for every number below 2 (zero, one, every
\* negative number) and for every even number
C15_IsPrimeSmall ==
    (pc = "done" /\ op = "IsPrime" /\ (Val(a) < 2 \/ Val(a) % 2 = 0))
        => ret = 0

\* the reference: x is prime
IsPrimeRef(x) == x >= 2 /\ \A y \in 2..(x - 1) : x % y # 0

\* the reference: x is a Carmichael number (composite, odd, and
\* y^(x-1) = 1 mod x for every y coprime to x)
IsCarmichael(x) ==
    /\ x > 2 /\ ~IsPrimeRef(x)
    /\ \A y \in 2..(x - 1) : Gcd(y, x) = 1 => PowRef(y, x - 1, x) = 1

\* C16: IsPrime returns true for every prime and false for every
\* Carmichael number, whatever bytes the random generator returns
C16_IsPrime ==
    (pc = "done" /\ op = "IsPrime")
        => /\ IsPrimeRef(Val(a)) => ret = 1
           /\ IsCarmichael(Val(a)) => ret = 0

\* ------------------------------------------------- strings in a given radix
\* A character is its code; a string is the sequence of the characters
\* before its terminating NUL.  The radix is one that a signed digit holds,
\* so the branches for radix 16 are not entered.
VLONG_ERR_BUFFER_SMALL == 13
VLONG_ERR_INVALID_CHAR == 14
VLONG_ERR_BAD_ARG_2 == 22
VLONG_ERR_BAD_ARG_3 == 23

\* "0123456789ABCDEF"
MP_DIG_CHARS == <<48, 49, 50, 51, 52, 53, 54, 55, 56, 57, 65, 66, 67, 68, 69, 70>>

\* strlen(str)
StrLen(str) ==
    IF \E i \in 1..Len(str) : str[i] = 0
    THEN (CHOOSE i \in 1..Len(str) :
              str[i] = 0 /\ \A j \in 1..(i - 1) : str[j] # 0) - 1
    ELSE Len(str)

\* strchr(alpha, c) - alpha, or -1 for NULL; the terminating NUL is found
StrChr(alpha, c) ==
    IF c = 0 THEN StrLen(alpha)
    ELSE IF \E i \in 1..StrLen(alpha) : alpha[i] = c
    THEN (CHOOSE i \in 1..StrLen(alpha) :
              alpha[i] = c /\ \A j \in 1..(i - 1) : alpha[j] # c) - 1
    ELSE 0 - 1

\* the digit of the character c in "0".."9", "A".."F", "a".."f", or -1
DefaultDigit(c) ==
    IF c >= 97 /\ c <= 102 THEN c - 87
    ELSE IF c >= 65 /\ c <= 70 THEN c - 55
    ELSE IF c >= 48 /\ c <= 57 THEN c - 48
    ELSE 0 - 1

\* the character c stands for no digit of the radix rdx
CharInvalid(c, rdx, alpha, custom) ==
    IF ~custom /\ rdx <= 16
    THEN DefaultDigit(c) < 0 \/ DefaultDigit(c) >= rdx
    ELSE StrChr(alpha, c) < 0

\* dig, for a character that stands for a digit
CharDigit(c, alpha, custom) ==
    IF custom THEN ToSD(StrChr(alpha, c)) ELSE ToSD(DefaultDigit(c))

\* Mul(*this, rd); if (s == MP_ZPOS) Add(*this, dig); else Sub(*this, dig);
\* none of the three statuses is looked at
FromStrAdd(m, dig) ==
    IF m.s = MP_ZPOS THEN Add_sdig(m, m, dig, TRUE).X
    ELSE Sub_sdig(m, m, dig, TRUE).X

FromStrStep(v, dig, rdx) == FromStrAdd(Mul_sdig(v, v, rdx, TRUE).X, dig)

\* for (i = 0; i < (int)len; i++) of FromStringBuf, radix other than 16
RECURSIVE FromStrLoop(_, _, _, _, _, _, _)
FromStrLoop(v, str, i, len, rdx, alpha, custom) ==
    IF i >= len THEN Ok(v)
    ELSE IF i = 0 /\ str[1] = 45
    THEN FromStrLoop(WithSign(v, MP_NEG), str, 1, len, rdx, alpha, custom)
    ELSE IF CharInvalid(str[i + 1], rdx, alpha, custom)
    THEN Err(VLONG_ERR_INVALID_CHAR, v)
    ELSE FromStrLoop(FromStrStep(v, CharDigit(str[i + 1], alpha, custom), rdx),
                     str, i + 1, len, rdx, alpha, custom)

\* int b = 8; if (rd < 256) b -= 1; ... if (rd < 4) b -= 1;
BitsPerChar(rdx) ==
    8 - Cardinality({t \in {256, 128, 64, 32, 16, 8, 4} : rdx < t})

\* FromStringBuf after CHECK( Grow(nNeeds + 1) )
FromStrGrown(g, str, len, rdx, alpha, custom) ==
    IF g.ret # 0 THEN g ELSE FromStrLoop(g.X, str, 0, len, rdx, alpha, custom)

\* FromStringBuf once the radix rdx is known
FromStrRadix(v, str, len, rdx, alpha, custom) ==
    IF rdx < 2 \/ rdx > (IF custom THEN 256 ELSE 16)
    THEN Err(VLONG_ERR_BAD_ARG_3, v)
    ELSE FromStrGrown(Grow([v EXCEPT !.nu = 0, !.s = MP_ZPOS],
                           ((BitsPerChar(rdx) * len + BiD - 1) \div BiD) + 1),
                      str, len, rdx, alpha, custom)

\* X.FromStringBuf(pBuf, nBufLen, nRadix, szCustomChars); custom tells
\* whether szCustomChars is given
FromStringBuf(v, str, nBufLen, nRadix, alpha, custom) ==
    FromStrRadix(v, str, IF nBufLen = 0 THEN StrLen(str) ELSE nBufLen,
                 IF custom /\ nRadix = 0 THEN StrLen(alpha) ELSE nRadix,
                 IF custom THEN alpha ELSE MP_DIG_CHARS, custom)

\* X.FromString(szNumber, radix)
FromString(v, str, radix) ==
    IF radix < 2 \/ radix > 16 THEN Err(VLONG_ERR_BAD_ARG_2, v)
    ELSE FromStringBuf(v, str, 0, radix, MP_DIG_CHARS, FALSE)

\* the characters a digit may take: b = BiD; if (rd >= 4) b >>= 1; ...
CharsPerDigit(rdx, buffered) ==
    ((BiD \div (IF rdx >= 4 THEN 2 ELSE 1)) \div (IF rdx >= 16 THEN 2 ELSE 1))
        \div (IF buffered /\ rdx = 256 THEN 2 ELSE 1)

\* while (v.nu > 0) { ret = v.Div(v, rd, &r); ... *(pt++) = pAlphabet[r]; }
\* the characters come out lowest digit first
RECURSIVE ToStrDigits(_, _, _, _)
RECURSIVE ToStrNext(_, _, _, _)
ToStrDigits(v, rdx, alpha, acc) ==
    IF v.nu = 0 THEN [ret |-> VLONG_SUCCESS, str |-> acc]
    ELSE ToStrNext(Div_sdig(v, v, rdx, TRUE, 0), rdx, alpha, acc)

ToStrNext(dv, rdx, alpha, acc) ==
    IF dv.ret # VLONG_SUCCESS THEN [ret |-> dv.ret, str |-> acc]
    ELSE ToStrDigits(dv.X, rdx, alpha, acc \o <<alpha[dv.r + 1]>>)

\* the string with its characters in the opposite order
Reverse(str) == [i \in 1..Len(str) |-> str[Len(str) + 1 - i]]

\* the sign, and the digits highest first
ToStrPut(v, ds) ==
    [ret |-> ds.ret,
     str |-> (IF v.s = MP_NEG THEN <<45>> ELSE << >>) \o Reverse(ds.str),
     nBufLen |-> Len(ds.str) + 1]

\* ToStringBuf once the radix rdx is known
ToStrRadix(v, nBufLen, rdx, alpha, custom) ==
    IF rdx < 2 \/ rdx > (IF custom THEN 256 ELSE 16)
    THEN [ret |-> VLONG_ERR_BAD_ARG_3, str |-> << >>, nBufLen |-> nBufLen]
    ELSE IF nBufLen < v.nu * CharsPerDigit(rdx, TRUE) + 2
    THEN [ret |-> VLONG_ERR_BUFFER_SMALL, str |-> << >>,
          nBufLen |-> v.nu * CharsPerDigit(rdx, TRUE) + 2]
    ELSE IF v.nu = 0
    THEN [ret |-> VLONG_SUCCESS, str |-> <<48>>, nBufLen |-> nBufLen]
    ELSE ToStrPut(v, ToStrDigits(WithSign(Copy(vlong_Init, v).X, MP_ZPOS),
                                 rdx, alpha, << >>))

\* a.ToStringBuf(pBuf, nBufLen, nRadix, szCustomChars): the status, the
\* string written, and nBufLen after the call
ToStringBuf(v, nBufLen, nRadix, alpha, custom) ==
    ToStrRadix(v, nBufLen,
               IF custom /\ nRadix = 0 THEN StrLen(alpha) ELSE nRadix,
               IF custom THEN alpha ELSE MP_DIG_CHARS, custom)

\* a.ToString(radix): the buffer tmp is made as large as needed
vlong_ToString(v, radix) ==
    ToStringBuf(v, v.nu * CharsPerDigit(radix, FALSE) + 2, radix,
                MP_DIG_CHARS, FALSE)

\* the radixes a signed digit holds
Radixes == 2..(B \div 2 - 1)

\* custom alphabets: "ba", "a-b", "-ab", "01"
CustomAlphabets == <<<<98, 97>>, <<97, 45, 98>>, <<45, 97, 98>>, <<48, 49>>>>

\* the numbers converted
StrValues == ((0 - 20)..20) \cup {0 - 255, 0 - 100, 100, 255, 256, 1000}

\* a.ToString / a.ToStringBuf and then X.FromString / X.FromStringBuf of
\* the string in buf; junk = 0 for the digit characters MP_DIG_CHARS with
\* the radix k, or the number of the custom alphabet
InitStr ==
    /\ pc = "init" /\ op = "none" /\ alias = "none"
    /\ a \in {OfInt(x) : x \in StrValues}
    /\ X \in {vlong_Init, OfInt(0 - 300)}
    /\ \/ junk = 0 /\ k \in Radixes
       \/ junk \in 1..Len(CustomAlphabets) /\ k = Len(CustomAlphabets[junk])
    /\ b = vlong_Init /\ n = vlong_Init /\ r = vlong_Init
    /\ rd = 0 /\ ret = 0 /\ depth = 0 /\ gst = NoGcd /\ buf = << >>

CallToString ==
    /\ pc = "init" /\ junk = 0
    /\ buf' = vlong_ToString(a, k).str
    /\ pc' = "str" /\ op' = "ToString"
    /\ UNCHANGED <<alias, X, a, b, n, k, r, rd, ret, junk, depth, gst>>

CallFromString ==
    /\ pc = "str" /\ junk = 0
    /\ With(FromString(X, buf, k), LAMBDA c : X' = c.X /\ ret' = c.ret)
    /\ Done("FromString", "none")
    /\ UNCHANGED <<a, b, n, k, r, rd, junk, depth, gst, buf>>

\* the caller's buffer has room for the whole number; rd keeps the count of
\* characters written
CallToStringBuf ==
    /\ pc = "init" /\ junk > 0
    /\ With(ToStringBuf(a, a.nu * BiD + 2, k, CustomAlphabets[junk], TRUE),
            LAMBDA c : buf' = c.str /\ ret' = c.ret /\ rd' = Len(c.str))
    /\ pc' = "str" /\ op' = "ToStringBuf"
    /\ UNCHANGED <<alias, X, a, b, n, k, r, junk, depth, gst>>

CallFromStringBuf ==
    /\ pc = "str" /\ junk > 0
    /\ With(FromStringBuf(X, buf, rd, k, CustomAlphabets[junk], TRUE),
            LAMBDA c : X' = c.X /\ ret' = c.ret)
    /\ Done("FromStringBuf", "none")
    /\ UNCHANGED <<a, b, n, k, r, rd, junk, depth, gst, buf>>

NextStr ==
    \/ CallToString
    \/ CallFromString
    \/ CallToStringBuf
    \/ CallFromStringBuf

SpecStr == InitStr /\ [][NextStr]_vars

\* C17: FromString of the string ToString made of x in the same radix
\* succeeds and leaves x, sign and magnitude, and so does FromStringBuf of
\* what ToStringBuf wrote with a custom alphabet
C17_StringRoundTrip ==
    (pc = "done" /\ op \in {"FromString", "FromStringBuf"})
        => ret = VLONG_SUCCESS /\ X.s = a.s /\ Val(X) = Val(a)

\* ------------------------------------------------------ bytes of a number
\* The conversions to bytes and to Base64 are written in terms of chars of
\* 8 bits; they are modelled for the configuration VLONG_16BIT, where a
\* digit is an unsigned short of ByteCiD chars.  A buffer of chars is the
\* sequence of its bytes.
ByteCiD == 2
ByteBiD == ByteCiD * 8

\* CHARS_TO_DIGITS(i)
CHARS_TO_DIGITS(i) == (i + ByteCiD - 1) \div ByteCiD

\* GetNumBits() of the configuration
ByteNumBits(v) ==
    IF isZero(v) THEN 0
    ELSE (IF v.nu > 1 THEN ByteBiD * (v.nu - 1) ELSE 0) + BitLen(v.d[v.nu])

\* (x & (0xFF << pos*8)) >> pos*8
ByteAt(x, pos) == (x \div (256 ^ pos)) % 256

\* (x & ~(0xFF << pos*8)) | (c << pos*8)
PutByte(x, pos, c) == x - ByteAt(x, pos) * (256 ^ pos) + c * (256 ^ pos)

\* the loop of GetBytes from the index i on: bf[i] is the byte
\* start + cnt - i - 1 of the number
RECURSIVE GetBytesLoop(_, _, _, _, _)
GetBytesLoop(v, start, cnt, i, bf) ==
    IF i >= cnt THEN bf
    ELSE GetBytesLoop(v, start, cnt, i + 1,
             [bf EXCEPT ![i + 1] =
                 ByteAt(v.d[(start + cnt - i - 1) \div ByteCiD + 1],
                        (start + cnt - i - 1) % ByteCiD)])

\* v.GetBytes(start, cnt, bf): the status and the buffer after the call
GetBytes(v, start, cnt, bf) ==
    IF start + cnt > v.nu * ByteCiD
    THEN [ret |-> VLONG_ERR_OUT_OF_RANGE, buf |-> bf]
    ELSE [ret |-> VLONG_SUCCESS, buf |-> GetBytesLoop(v, start, cnt, 0, bf)]

\* the loop of SetBytes from the index i on, on the digits ds
RECURSIVE SetBytesLoop(_, _, _, _, _)
SetBytesLoop(ds, start, cnt, i, p) ==
    IF i >= cnt THEN ds
    ELSE SetBytesLoop(
             [ds EXCEPT ![(start + cnt - i - 1) \div ByteCiD + 1] =
                 PutByte(@, (start + cnt - i - 1) % ByteCiD, p[i + 1])],
             start, cnt, i + 1, p)

\* v.SetBytes(start, cnt, p): nu changes only when the bytes do not fit
\* in the nu digits in use
SetBytes(v, start, cnt, p) ==
    Bind(IF start + cnt > v.nu * ByteCiD
         THEN Bind(Grow(v, start + cnt + 1), LAMBDA g :
              Ok([g EXCEPT !.nu = CHARS_TO_DIGITS(start + cnt)]))
         ELSE Ok(v), LAMBDA g :
    Ok([g EXCEPT !.d = SetBytesLoop(g.d, start, cnt, 0, p)]))

\* v.ToBinary(buf, buflen): nb counts digits; the buffer of buflen chars is
\* cleared first
ToBinary(v, buflen) ==
    IF (ByteNumBits(v) + ByteBiD - 1) \div ByteBiD > buflen
    THEN [ret |-> VLONG_ERR_BUFFER_SMALL, buf |-> Zeros(buflen)]
    ELSE GetBytes(v, 0, buflen, Zeros(buflen))

\* v.FromBinary(p, buflen)
FromBinary(v, p, buflen) == SetBytes(WithSign(v, MP_ZPOS), 0, buflen, p)

\* ------------------------------------------------------------------ Base64
\* "ABCDEFGHIJKLMNOPQRSTUVWXYZabcdefghijklmnopqrstuvwxyz0123456789+/"
base64_enc ==
    [i \in 1..64 |-> IF i <= 26 THEN 64 + i
                     ELSE IF i <= 52 THEN 70 + i
                     ELSE IF i <= 62 THEN i - 5
                     ELSE IF i = 63 THEN 43 ELSE 47]

POS(c) ==
    IF c >= 65 /\ c <= 90 THEN c - 65
    ELSE IF c >= 97 /\ c <= 122 THEN c - 97 + 26
    ELSE IF c >= 48 /\ c <= 57 THEN c - 48 + 52
    ELSE IF c = 43 THEN 62
    ELSE IF c = 47 THEN 63
    ELSE IF c = 61 THEN 0 - 1
    ELSE 0 - 2

\* the three chars one group of four characters is decoded to, stored at
\* q in tmp; a char that is not stored keeps what tmp held.  The shifts of
\* a negative int are arithmetic, and the store keeps the low 8 bits.
B64Store(tmp, q, n0, n1, n2, n3) ==
    [j \in 1..Len(tmp) |->
        IF j = q + 1 THEN (n0 * 4 + (n1 \div 16)) % 256
        ELSE IF j = q + 2 /\ n2 # 0 - 1
             THEN ((n1 % 16) * 16 + (n2 \div 4)) % 256
        ELSE IF j = q + 3 /\ n3 # 0 - 1
             THEN ((n2 % 4) * 64 + n3) % 256
        ELSE tmp[j]]

\* the number is read from the dlen chars of tmp: the sign char and the
\* magnitude
B64Number(v, tmp, dlen) ==
    Bind(FromBinary(v, SubSeq(tmp, 2, dlen), dlen - 1), LAMBDA m :
    Ok(Clamp(WithSign(m, IF tmp[1] = 0 THEN MP_ZPOS ELSE MP_NEG))))

\* the loop of FromBase64 over the groups of four characters, from the
\* character at p on
RECURSIVE B64Loop(_, _, _, _, _)
B64Loop(v, str, len, p, tmp) ==
    IF POS(str[p + 1]) = 0 - 1 \/ POS(str[p + 2]) = 0 - 1
    THEN Err(VLONG_ERR_INVALID_CHAR, v)
    ELSE IF POS(str[p + 3]) = 0 - 1 /\ POS(str[p + 4]) # 0 - 1
    THEN Err(VLONG_ERR_INVALID_CHAR, v)
    ELSE IF p + 4 < len
    THEN B64Loop(v, str, len, p + 4,
                 B64Store(tmp, (p \div 4) * 3, POS(str[p + 1]),
                          POS(str[p + 2]), POS(str[p + 3]), POS(str[p + 4])))
    ELSE B64Number(v,
                   B64Store(tmp, (p \div 4) * 3, POS(str[p + 1]),
                            POS(str[p + 2]), POS(str[p + 3]), POS(str[p + 4])),
                   (p \div 4) * 3 + 3
                       - (IF POS(str[p + 3]) = 0 - 1 THEN 1 ELSE 0)
                       - (IF POS(str[p + 4]) = 0 - 1 THEN 1 ELSE 0))

\* v.FromBase64(str); fill is what the chars of the buffer tmp hold before
\* they are written
FromBase64(v, str, fill) ==
    IF StrLen(str) = 0 THEN Ok(SetZero(v))
    ELSE IF StrLen(str) % 4 # 0 THEN Err(VLONG_ERR_BAD_ARG_1, v)
    ELSE B64Loop(v, str, StrLen(str), 0,
                 [j \in 1..((StrLen(str) \div 4) * 3 + 1) |-> fill])

\* the characters of ToBase64Buf for the chars from the index i on of the
\* cnt chars bin
RECURSIVE B64Encode(_, _, _)
B64Encode(bin, cnt, i) ==
    IF i >= cnt THEN << >>
    ELSE With((bin[i + 1] * 256
                  + (IF i + 1 < cnt THEN bin[i + 2] ELSE 0)) * 256
                  + (IF i + 2 < cnt THEN bin[i + 3] ELSE 0), LAMBDA c :
         << base64_enc[((c \div 262144) % 64) + 1],
            base64_enc[((c \div 4096) % 64) + 1],
            IF i + 3 > cnt + 1 THEN 61 ELSE base64_enc[((c \div 64) % 64) + 1],
            IF i + 3 > cnt THEN 61 ELSE base64_enc[(c % 64) + 1] >>
         \o B64Encode(bin, cnt, i + 3))

\* v.ToBase64Buf(pBuf, nBufLen): the status and the string in pBuf after
\* the call; nBufLen is not looked at
ToBase64Buf(v, pBuf) ==
    With(ToBinary(v, (ByteNumBits(v) + 7) \div 8), LAMBDA m :
    IF m.ret # VLONG_SUCCESS THEN [ret |-> m.ret, str |-> pBuf]
    ELSE [ret |-> VLONG_SUCCESS,
          str |-> B64Encode(<<IF v.s = MP_ZPOS THEN 0 ELSE 1>> \o m.buf,
                            (ByteNumBits(v) + 7) \div 8 + 1, 0)])

\* v.ToBase64(): the string in tmp, which is returned also when
\* ToBase64Buf fails
ToBase64(v, tmp) == ToBase64Buf(v, tmp).str

\* ------------------------------------------- the conversions, called
\* buffers handed to ToBinary have at most MaxBufLen chars
MaxBufLen == 5

\* the digits of the numbers converted: 0, 1, 5, 0xFF, 0x100, 0x1234,
\* 0xFFFF, 0x10000, 0x1AABBCCF
ByteDigitStrings ==
    { << >>, <<1>>, <<5>>, <<255>>, <<256>>, <<4660>>, <<65535>>, <<0, 1>>,
      <<48335, 6827>> }

\* the numbers converted, in a buffer with one digit to spare
ByteValues ==
    {[s |-> sg, nu |-> Len(ds), d |-> ds \o <<0>>] :
        sg \in {MP_ZPOS, MP_NEG}, ds \in ByteDigitStrings \ {<< >>}}
    \cup {vlong_Init}

\* the receivers: a new object, 0x1234, and -0x6789AB
ByteReceivers ==
    { vlong_Init,
      [s |-> MP_ZPOS, nu |-> 1, d |-> <<4660, 0>>],
      [s |-> MP_NEG, nu |-> 2, d |-> <<35243, 103, 0>>] }

\* strings handed to FromBase64: "AAU=", "ARqrvM8=", "AAAA", and "!!!!",
\* "AA!A", "AA E", "AR*rvM8=", "AA==AAAA", "AAA=AAAA", "A", "AAAAA", "A=AA",
\* "AA=A", "=AAA", "===="
Base64Texts ==
    { <<65, 65, 85, 61>>, <<65, 82, 113, 114, 118, 77, 56, 61>>,
      <<65, 65, 65, 65>>,
      <<33, 33, 33, 33>>, <<65, 65, 33, 65>>, <<65, 65, 32, 69>>,
      <<65, 82, 42, 114, 118, 77, 56, 61>>,
      <<65, 65, 61, 61, 65, 65, 65, 65>>, <<65, 65, 65, 61, 65, 65, 65, 65>>,
      <<65>>, <<65, 65, 65, 65, 65>>, <<65, 61, 65, 65>>, <<65, 65, 61, 65>>,
      <<61, 65, 65, 65>>, <<61, 61, 61, 61>> }

\* a holds the number converted, X the receiver of the conversion back,
\* junk what a char of a new buffer holds
InitBytes ==
    /\ pc = "init" /\ op = "none" /\ alias = "none"
    /\ a \in ByteValues
    /\ X \in ByteReceivers
    /\ junk \in {0, 255}
    /\ b = vlong_Init /\ n = vlong_Init /\ r = vlong_Init
    /\ k = 0 /\ rd = 0 /\ ret = 0 /\ depth = 0 /\ gst = NoGcd /\ buf = << >>

CallToBase64 ==
    /\ pc = "init"
    /\ buf' = ToBase64(a, << >>)
    /\ pc' = "b64" /\ op' = "ToBase64"
    /\ UNCHANGED <<alias, X, a, b, n, k, r, rd, ret, junk, depth, gst>>

\* X.FromBase64(a.ToBase64())
CallFromBase64 ==
    /\ pc = "b64"
    /\ With(FromBase64(X, buf, junk), LAMBDA c : X' = c.X /\ ret' = c.ret)
    /\ Done("FromBase64", "none")
    /\ UNCHANGED <<a, b, n, k, r, rd, junk, depth, gst, buf>>

\* X.FromBase64(str) for a string that is given
CallFromBase64Text ==
    /\ pc = "init"
    /\ \E str \in Base64Texts :
          /\ buf' = str
          /\ With(FromBase64(X, str, junk),
                  LAMBDA c : X' = c.X /\ ret' = c.ret)
    /\ Done("FromBase64Text", "none")
    /\ UNCHANGED <<a, b, n, k, r, rd, junk, depth, gst>>

\* a.ToBinary(buf, len); rd keeps len
CallToBinary ==
    /\ pc = "init"
    /\ \E len \in 0..MaxBufLen :
          /\ rd' = len
          /\ With(ToBinary(a, len), LAMBDA c : buf' = c.buf /\ ret' = c.ret)
    /\ pc' = "bin" /\ op' = "ToBinary"
    /\ UNCHANGED <<alias, X, a, b, n, k, r, junk, depth, gst>>

\* X.FromBinary(buf, len) of the chars ToBinary wrote
CallFromBinary ==
    /\ pc = "bin" /\ ret = VLONG_SUCCESS
    /\ With(FromBinary(X, buf, rd), LAMBDA c : X' = c.X /\ ret' = c.ret)
    /\ Done("FromBinary", "none")
    /\ UNCHANGED <<a, b, n, k, r, rd, junk, depth, gst, buf>>

NextBytes ==
    \/ CallToBase64
    \/ CallFromBase64
    \/ CallFromBase64Text
    \/ CallToBinary
    \/ CallFromBinary

SpecBytes == InitBytes /\ [][NextBytes]_vars

\* the chars of the digits ds, the lowest first
DigitChars(ds) ==
    [j \in 1..(Len(ds) * ByteCiD) |->
        (ds[(j - 1) \div ByteCiD + 1] \div (256 ^ ((j - 1) % ByteCiD))) % 256]

\* the big-endian magnitude of v: no leading zero char
MagBytes(v) ==
    Reverse(SubSeq(DigitChars(SubSeq(v.d, 1, v.nu)), 1,
                   TopDigit(DigitChars(SubSeq(v.d, 1, v.nu)), v.nu * ByteCiD)))

\* the chars bf without their leading zeros
StripZeros(bf) == Reverse(SubSeq(Reverse(bf), 1, TopDigit(Reverse(bf), Len(bf))))

\* the digits of v in use, without leading zeros
ByteDigits(v) == SubSeq(v.d, 1, TopDigit(v.d, v.nu))

\* the Base64 text of the chars bs (RFC 4648): the bits of bs in groups of
\* six, padded with '=' to a multiple of four characters
Base64Bit(bs, j) ==
    IF j >= 8 * Len(bs) THEN 0
    ELSE (bs[j \div 8 + 1] \div (2 ^ (7 - (j % 8)))) % 2

Base64Sextet(bs, g) ==
    32 * Base64Bit(bs, 6 * g) + 16 * Base64Bit(bs, 6 * g + 1)
        + 8 * Base64Bit(bs, 6 * g + 2) + 4 * Base64Bit(bs, 6 * g + 3)
        + 2 * Base64Bit(bs, 6 * g + 4) + Base64Bit(bs, 6 * g + 5)

Base64Ref(bs) ==
    [j \in 1..(4 * ((Len(bs) + 2) \div 3)) |->
        IF 6 * (j - 1) < 8 * Len(bs)
        THEN base64_enc[Base64Sextet(bs, j - 1) + 1] ELSE 61]

\* C18: X.FromBase64(a.ToBase64()) succeeds and leaves a, sign and
\* magnitude, and the text is the Base64 form of the sign char (0 for +,
\* 1 for -) followed by the big-endian magnitude of a
C18_Base64RoundTrip ==
    (pc = "done" /\ op = "FromBase64")
        => /\ ret = VLONG_SUCCESS
           /\ X.s = a.s /\ ByteDigits(X) = ByteDigits(a)
           /\ buf = Base64Ref(<<IF a.s = MP_NEG THEN 1 ELSE 0>> \o MagBytes(a))

\* str has a character outside A-Z a-z 0-9 + / =
HasInvalidChar(str) == \E i \in 1..Len(str) : POS(str[i]) = 0 - 2

\* str has '=' elsewhere than as its last one or two characters
HasMisplacedPadding(str) ==
    \E i \in 1..Len(str) :
        /\ str[i] = 61
        /\ \/ i < Len(str) - 1
           \/ \E j \in (i + 1)..Len(str) : str[j] # 61

\* C19: FromBase64 returns an error for a string whose length is not a
\* multiple of 4, that has an invalid character, or that has misplaced
\* padding
C19_Base64Errors ==
    (pc = "done" /\ op = "FromBase64Text"
        /\ (Len(buf) % 4 # 0 \/ HasInvalidChar(buf) \/ HasMisplacedPadding(buf)))
        => ret # VLONG_SUCCESS

\* C20: with L the number of chars of the magnitude of a, ToBinary of a
\* buffer of at least L chars succeeds and the buffer holds the big-endian
\* magnitude, ToBinary of a shorter buffer returns VLONG_ERR_BUFFER_SMALL,
\* and FromBinary of the L chars written leaves |a|
C20_Binary ==
    /\ (pc = "bin" /\ rd >= Len(MagBytes(a)))
           => ret = VLONG_SUCCESS /\ StripZeros(buf) = MagBytes(a)
    /\ (pc = "bin" /\ rd < Len(MagBytes(a)))
           => ret = VLONG_ERR_BUFFER_SMALL
    /\ (pc = "done" /\ op = "FromBinary" /\ rd = Len(MagBytes(a)))
           => ret = VLONG_SUCCESS /\ X.s = MP_ZPOS
              /\ ByteDigits(X) = ByteDigits(a)

\* ------------------------------------------------------- shifts and bits
\* X.SetBit(num, bit)
SetBit(v, num, bit) ==
    Bind(IF num \div BiD >= v.nu /\ bit % 2 > 0
         THEN Bind(Grow(v, num \div BiD + 1), LAMBDA g :
              Ok([g EXCEPT !.nu = num \div BiD + 1]))
         ELSE Ok(v), LAMBDA g :
    IF num \div BiD >= g.nu THEN Ok(g)
    ELSE Ok([g EXCEPT !.d = Wr(g.d, num \div BiD,
                 BitOr(g.d[num \div BiD + 1]
                           - BitAnd(g.d[num \div BiD + 1],
                                    (bit % 2) * (2 ^ (num % BiD))),
                       (bit % 2) * (2 ^ (num % BiD))))]))

\* X.GetBit(num): the char returned
GetBit(v, num) ==
    IF num \div BiD >= v.nu THEN VLONG_ERR_OUT_OF_RANGE
    ELSE BitAnd(v.d[num \div BiD + 1], 2 ^ (num % BiD)) \div (2 ^ (num % BiD))

\* shift counts and bit numbers go up to MaxShift
MaxShift == 9

\* the numbers shifted: zero, one digit, and more digits
ShiftValues ==
    {OfInt(x) : x \in {0, 1, 0 - 1, 2, 5, 0 - 5, 8, 15, 0 - 15, 16, 17,
                       0 - 16, 255, 0 - 255, 256, 1000, 0 - 1000, 4095}}

\* X.ShiftLeft(a, k), X.ShiftRight(a, k), a.SetBit(k, rd) and a.GetBit(k);
\* SetBit leaves the object in X
InitBits ==
    /\ InitCommon
    /\ a \in ShiftValues
    /\ k \in (0 - MaxShift)..MaxShift
    /\ rd \in {0, 1}
    /\ b = vlong_Init /\ n = vlong_Init

CallShiftLeft ==
    /\ pc = "init"
    /\ \E al \in BOOLEAN :
          /\ With(ShiftLeft(IF al THEN a ELSE X, a, k, al),
                  LAMBDA c : X' = c.X /\ ret' = c.ret)
          /\ Done("ShiftLeft", IF al THEN "a" ELSE "none")
    /\ UNCHANGED <<a, b, n, k, r, rd, junk, depth, gst, buf>>

CallShiftRight ==
    /\ pc = "init"
    /\ \E al \in BOOLEAN :
          /\ With(ShiftRight(IF al THEN a ELSE X, a, k, al),
                  LAMBDA c : X' = c.X /\ ret' = c.ret)
          /\ Done("ShiftRight", IF al THEN "a" ELSE "none")
    /\ UNCHANGED <<a, b, n, k, r, rd, junk, depth, gst, buf>>

\* r.ShiftRight(X, k) of the X that ShiftLeft(a, k) left
CallShiftBack ==
    /\ pc = "done" /\ op = "ShiftLeft" /\ ret = VLONG_SUCCESS /\ k >= 0
    /\ With(ShiftRight(r, X, k, FALSE), LAMBDA c : r' = c.X /\ ret' = c.ret)
    /\ pc' = "back"
    /\ UNCHANGED <<op, alias, X, a, b, n, k, rd, junk, depth, gst, buf>>

CallSetBit ==
    /\ pc = "init" /\ k >= 0
    /\ With(SetBit(a, k, rd), LAMBDA c : X' = c.X /\ ret' = c.ret)
    /\ Done("SetBit", "a")
    /\ UNCHANGED <<a, b, n, k, r, rd, junk, depth, gst, buf>>

CallGetBit ==
    /\ pc = "init" /\ k >= 0
    /\ ret' = GetBit(a, k)
    /\ Done("GetBit", "a")
    /\ UNCHANGED <<X, a, b, n, k, r, rd, junk, depth, gst, buf>>

NextBits ==
    \/ CallShiftLeft
    \/ CallShiftRight
    \/ CallShiftBack
    \/ CallSetBit
    \/ CallGetBit

SpecBits == InitBits /\ [][NextBits]_vars

\* C21: ShiftLeft(a, k) leaves a * 2^k, the zero value when a = 0;
\* ShiftRight(a, k) leaves floor(a / 2^k) for a >= 0; a negative count
\* shifts the other way; ShiftRight(ShiftLeft(a, k), k) = a
C21_Shifts ==
    /\ (pc = "done" /\ op \in {"ShiftLeft", "ShiftRight"})
           => ret = VLONG_SUCCESS
    /\ (pc = "done" /\ ((op = "ShiftLeft" /\ k >= 0)
                            \/ (op = "ShiftRight" /\ k < 0)))
           => /\ Val(X) = Val(a) * (2 ^ AbsInt(k))
              /\ Val(a) = 0 => isZero(X)
    /\ (pc = "done" /\ Val(a) >= 0
             /\ ((op = "ShiftRight" /\ k >= 0) \/ (op = "ShiftLeft" /\ k < 0)))
           => /\ Val(X) = Val(a) \div (2 ^ AbsInt(k))
              /\ Val(X) = 0 => isZero(X)
    /\ pc = "back"
           => ret = VLONG_SUCCESS /\ r.s = a.s /\ Val(r) = Val(a)

\* C22: after a.SetBit(k, v) has returned success, GetBit(k) = v and
\* GetBit(m) is what it was for every other m
C22_SetBit ==
    (pc = "done" /\ op = "SetBit" /\ ret = VLONG_SUCCESS)
        => /\ GetBit(X, k) = rd
           /\ \A m \in (0..(2 * MaxShift)) \ {k} : GetBit(X, m) = GetBit(a, m)

\* C23: GetBit(k) is 0 for every bit beyond the digits in use, and is
\* never another value than 0 or 1
C23_GetBit ==
    (pc = "done" /\ op = "GetBit")
        => /\ ret \in {0, 1}
           /\ k >= a.nu * BiD => ret = 0

\* ------------------------------------------------------------ Pow and Root
\* The loop of Pow, while (e > 0): c is the result so far, sq the square;
\* the result of a call that failed is returned as it is
RECURSIVE IpowLoop(_, _, _)
IpowNext(c, res, e) ==
    IF res.ret # VLONG_SUCCESS THEN Err(res.ret, c) ELSE IpowLoop(c, res.X, e)

\* e = e >> 1; if (e > 0) CHECK( sq.Mul(sq, sq) )
IpowSquare(c, sq, e) ==
    IF e \div 2 > 0 THEN IpowNext(c, Mul(sq, sq, sq, 0, "ab"), e \div 2)
    ELSE Ok(c)

\* the result of if ((e & 1) > 0) CHECK( c->Mul(*c, sq) )
IpowMul(res, sq, e) ==
    IF res.ret # VLONG_SUCCESS THEN res ELSE IpowSquare(res.X, sq, e)

IpowLoop(c, sq, e) ==
    IF e <= 0 THEN Ok(c)
    ELSE IF e % 2 = 1 THEN IpowMul(Mul(c, c, sq, 0, "a"), sq, e)
    ELSE IpowSquare(c, sq, e)

\* CHECK( sq.SetValue(a) ); CHECK( c->SetValue(1) ); and the loop; v is the
\* receiver before the call, c the object the result is built in
IpowStart(v, c, sq, e) ==
    IF sq.ret # VLONG_SUCCESS THEN Err(sq.ret, v)
    ELSE IF SetValue(c, 1).ret # VLONG_SUCCESS THEN SetValue(c, 1)
    ELSE IpowLoop(SetValue(c, 1).X, sq.X, e)

\* X.Pow(sdig_t x, sdig_t e) for e >= 0.  The loop leaves e = 0, so that
\* (e % 2) == 0 holds where the sign is set for a negative x
Pow_sdig(v, x, e) ==
    IF e = 0 THEN SetValue(v, 1)
    ELSE IF e = 1 THEN SetValue(v, x)
    ELSE Bind(IpowStart(v, v, SetValue(vlong_Init, x), e), LAMBDA p :
         Ok(IF x < 0 THEN WithSign(p, MP_ZPOS) ELSE p))

\* the end of Pow(const vlong &, size_t): prvMovePtr(tmp1) when a is the
\* receiver, and s = sign
PowFinish(v, res, sign, aIsX) ==
    IF res.ret # VLONG_SUCCESS THEN Err(res.ret, IF aIsX THEN v ELSE res.X)
    ELSE Ok(WithSign(IF aIsX THEN prvMovePtr(v, res.X) ELSE res.X, sign))

\* X.Pow(x, size_t e)
Pow(v, x, e, aIsX) ==
    IF e = 0 THEN SetValue(v, 1)
    ELSE IF e = 1 THEN (IF aIsX THEN Ok(v) ELSE Copy(v, x))
    ELSE PowFinish(v,
                   IpowStart(v, IF aIsX THEN vlong_Init ELSE v,
                             Copy(vlong_Init, x), e),
                   IF x.s = MP_NEG /\ e % 2 # 0 THEN MP_NEG ELSE MP_ZPOS, aIsX)

\* exponents of Pow go up to MaxExponent
MaxExponent == 5

\* X.Pow(k, rd) with the signed digit k, and X.Pow(a, rd) with a = vlong(k)
InitIpow ==
    /\ InitCommon
    /\ k \in Scalars
    /\ a = OfInt(k)
    /\ rd \in 0..MaxExponent
    /\ b = vlong_Init /\ n = vlong_Init

CallPowDig ==
    /\ pc = "init"
    /\ With(Pow_sdig(X, k, rd), LAMBDA c : X' = c.X /\ ret' = c.ret)
    /\ Done("PowDig", "none")
    /\ UNCHANGED <<a, b, n, k, r, rd, junk, depth, gst, buf>>

CallPow ==
    /\ pc = "init"
    /\ \E al \in BOOLEAN :
          /\ With(Pow(IF al THEN a ELSE X, a, rd, al),
                  LAMBDA c : X' = c.X /\ ret' = c.ret)
          /\ Done("Pow", IF al THEN "a" ELSE "none")
    /\ UNCHANGED <<a, b, n, k, r, rd, junk, depth, gst, buf>>

NextIpow ==
    \/ CallPowDig
    \/ CallPow

SpecIpow == InitIpow /\ [][NextIpow]_vars

\* x^e for e >= 0, with x^0 = 1
RECURSIVE IntPow(_, _)
IntPow(x, e) == IF e = 0 THEN 1 ELSE x * IntPow(x, e - 1)

\* C25: X.Pow(k, e) with a signed digit k and e >= 0 leaves k^e, negative
\* exactly when k < 0 and e is odd, which is what X.Pow(vlong(k), e) leaves
C25_PowDig ==
    (pc = "done" /\ op \in {"PowDig", "Pow"})
        => /\ ret = VLONG_SUCCESS
           /\ Val(X) = IntPow(k, rd)
           /\ (X.s = MP_NEG) <=> (k < 0 /\ rd % 2 = 1)

\* ------------------------------------------------------------------- Root
\* the locals t1..t5 of a Root call in progress
RootLocals(t2, t5) ==
    [t1 |-> vlong_Init, t2 |-> t2, t3 |-> vlong_Init, t4 |-> vlong_Init,
     t5 |-> t5]

RootFail(e, L) == [ret |-> e, L |-> L]

\* t2.Sub(t1, t3), the last statement of the loop body
RootNext(L, res) ==
    IF res.ret # VLONG_SUCCESS THEN RootFail(res.ret, L)
    ELSE [ret |-> VLONG_SUCCESS, L |-> [L EXCEPT !.t2 = res.X]]

\* t3.Div(t2, t3, &t4)
RootQuot(L, dv) ==
    IF dv.ret # VLONG_SUCCESS THEN RootFail(dv.ret, L)
    ELSE RootNext([L EXCEPT !.t3 = dv.Q, !.t4 = dv.R],
                  Sub(L.t2, L.t1, dv.Q, "none"))

\* t3.Mul(t3, n): the udig_t n converts to sdig_t
RootDenom(L, res) ==
    IF res.ret # VLONG_SUCCESS THEN RootFail(res.ret, L)
    ELSE RootQuot([L EXCEPT !.t3 = res.X],
                  Div(res.X, L.t2, res.X, "b", L.t4, TRUE, "none"))

\* t2.Sub(t2, t5)
RootNumer(L, res, e) ==
    IF res.ret # VLONG_SUCCESS THEN RootFail(res.ret, L)
    ELSE RootDenom([L EXCEPT !.t2 = res.X], Mul_sdig(L.t3, L.t3, e, TRUE))

\* t2.Mul(t1, t3)
RootPower(L, res, e) ==
    IF res.ret # VLONG_SUCCESS THEN RootFail(res.ret, L)
    ELSE RootNumer([L EXCEPT !.t2 = res.X], Sub(res.X, res.X, L.t5, "a"), e)

\* t3.Pow(t2, n - 1)
RootDeriv(L, res, e) ==
    IF res.ret # VLONG_SUCCESS THEN RootFail(res.ret, L)
    ELSE RootPower([L EXCEPT !.t3 = res.X], Mul(L.t2, L.t1, res.X, 0, "none"),
                   e)

\* t1.SetValue(t2)
RootGuess(L, res, e) ==
    IF res.ret # VLONG_SUCCESS THEN RootFail(res.ret, L)
    ELSE RootDeriv([L EXCEPT !.t1 = res.X], Pow(L.t3, L.t2, e - 1, FALSE), e)

\* one pass of the do ... while loop of Root
RootNewtonStep(L, e) == RootGuess(L, Copy(L.t1, L.t2), e)

\* t2.Pow(t1, n) of the correction loop
RootRaise(L, res) ==
    IF res.ret # VLONG_SUCCESS THEN RootFail(res.ret, L)
    ELSE [ret |-> VLONG_SUCCESS, L |-> [L EXCEPT !.t2 = res.X]]

\* t1.Sub(t1, 1) of the correction loop
RootLower(L, res) ==
    IF res.ret # VLONG_SUCCESS THEN RootFail(res.ret, L)
    ELSE [ret |-> VLONG_SUCCESS, L |-> [L EXCEPT !.t1 = res.X]]

\* t5.SetValue(a); t5.s = 1; t2.SetValue(2)
RootEnter(t5, t2) ==
    IF t5.ret # VLONG_SUCCESS THEN RootFail(t5.ret, NoGcd)
    ELSE IF t2.ret # VLONG_SUCCESS THEN RootFail(t2.ret, NoGcd)
    ELSE [ret |-> VLONG_SUCCESS, L |-> RootLocals(t2.X, WithSign(t5.X, 1))]

\* Root is checked for these arguments and for the degrees 0..MaxDegree
RootValues == (0 - 9)..40
MaxDegree == 3

InitRoot ==
    /\ InitCommon
    /\ \E i \in RootValues : a = OfInt(i)
    /\ k \in 0..MaxDegree
    /\ b = vlong_Init /\ n = vlong_Init /\ rd = 0

\* X.Root(a, k) up to its first loop
CallRoot ==
    /\ pc = "init"
    /\ op' = "Root" /\ alias' = "none"
    /\ IF k = 0
       THEN pc' = "done" /\ ret' = VLONG_ERR_DIV_BY_ZERO /\ gst' = gst
       ELSE IF k % 2 = 0 /\ a.s = MP_NEG
       THEN pc' = "done" /\ ret' = VLONG_ERR_NEGATIVE_ARG /\ gst' = gst
       ELSE LET st == RootEnter(Copy(vlong_Init, a), SetValue(vlong_Init, 2))
            IN  /\ ret' = st.ret
                /\ gst' = st.L
                /\ pc' = IF st.ret # VLONG_SUCCESS THEN "done" ELSE "newton"
    /\ UNCHANGED <<X, a, b, n, k, r, rd, junk, depth, buf>>

\* the body of the do ... while loop
RootNewton ==
    /\ pc = "newton"
    /\ LET st == RootNewtonStep(gst, k)
       IN  /\ ret' = st.ret
           /\ gst' = st.L
           /\ pc' = IF st.ret # VLONG_SUCCESS THEN "done" ELSE "while"
    /\ UNCHANGED <<op, alias, X, a, b, n, k, r, rd, junk, depth, buf>>

\* while (t1.Compare(t2) != MP_EQ)
RootWhile ==
    /\ pc = "while"
    /\ pc' = IF Compare(gst.t1, gst.t2) # MP_EQ THEN "newton" ELSE "for"
    /\ UNCHANGED <<op, alias, X, a, b, n, k, r, rd, ret, junk, depth, gst, buf>>

\* t2.Pow(t1, n), the first statement of the for (;;) loop
RootFor ==
    /\ pc = "for"
    /\ LET st == RootRaise(gst, Pow(gst.t2, gst.t1, k, FALSE))
       IN  /\ ret' = st.ret
           /\ gst' = st.L
           /\ pc' = IF st.ret # VLONG_SUCCESS THEN "done" ELSE "if"
    /\ UNCHANGED <<op, alias, X, a, b, n, k, r, rd, junk, depth, buf>>

\* if (t2.Compare(t5) == MP_GT) t1.Sub(t1, 1); else break; after the loop
\* swap(t1) and s = a.s
RootIf ==
    /\ pc = "if"
    /\ IF Compare(gst.t2, gst.t5) = MP_GT
       THEN LET st == RootLower(gst, Sub_sdig(gst.t1, gst.t1, 1, TRUE))
            IN  /\ ret' = st.ret
                /\ gst' = st.L
                /\ pc' = IF st.ret # VLONG_SUCCESS THEN "done" ELSE "for"
                /\ X' = X
       ELSE /\ X' = WithSign(gst.t1, a.s)
            /\ pc' = "done"
            /\ UNCHANGED <<ret, gst>>
    /\ UNCHANGED <<op, alias, a, b, n, k, r, rd, junk, depth, buf>>

NextRoot == CallRoot \/ RootNewton \/ RootWhile \/ RootFor \/ RootIf

\* the places of a Root call
RootPlaces == {"init", "newton", "while", "for", "if", "done"}

\* control moves on from a place that is not the return
RootAdvance == pc # "done" /\ pc' \in RootPlaces \ {pc}

\* Root is sequential code: as long as it has not returned, the statement at
\* pc is executed.  Every step of NextRoot moves pc and one is possible at
\* every place but "done", so this is weak fairness of NextRoot
SpecRoot == InitRoot /\ [][NextRoot]_vars /\ WF_pc(RootAdvance)

\* what Root has to leave in X for a >= 0: the floor of the k-th root
RootResult ==
    /\ ret = VLONG_SUCCESS
    /\ Val(X) >= 0
    /\ IntPow(Val(X), k) <= Val(a)
    /\ Val(a) < IntPow(Val(X) + 1, k)

\* C24: for every a >= 0 and every degree k >= 1 Root returns, successfully,
\* with X^k <= a < (X+1)^k; degree 0 returns VLONG_ERR_DIV_BY_ZERO and an
\* even degree with a < 0 returns VLONG_ERR_NEGATIVE_ARG
C24_Root ==
    /\ [](pc = "done" =>
            /\ (k = 0) => ret = VLONG_ERR_DIV_BY_ZERO
            /\ (k # 0 /\ k % 2 = 0 /\ Val(a) < 0) =>
                   ret = VLONG_ERR_NEGATIVE_ARG
            /\ (k >= 1 /\ Val(a) >= 0) => RootResult)
    /\ <>(pc = "done")

\* ------------------------------------------------------------ zero divisors
\* zero as SetValue(0) leaves it: in a fresh object, and in one that held 5
ZeroValues == {vlong_Init, SetZero(OfInt(5))}

\* the divisor is zero, as a vlong (b) and as a digit (k); n keeps the
\* receiver as it is before the call
InitZero ==
    /\ InitCommon
    /\ a \in Operands(MaxLimbs)
    /\ b \in ZeroValues
    /\ k = 0
    /\ rd \in {0, 3}
    /\ n = X

NextZero == CallDiv \/ CallMod \/ CallDivShort \/ CallModShort

SpecZero == InitZero /\ [][NextZero]_vars

\* the receiver of the call that was made, as it was before the call
ReceiverBefore ==
    IF alias = "none" THEN n ELSE IF alias = "b" THEN b ELSE a

\* C26: Div and Mod with a zero divisor, vlong or digit, return
\* VLONG_ERR_DIV_BY_ZERO and leave the receiver as it was
C26_ZeroDivisor ==
    (pc = "done") =>
        /\ ret = VLONG_ERR_DIV_BY_ZERO
        /\ X = ReceiverBefore

\* ----------------------------------------------------------- random numbers
\* the status the warning about the built-in generator has
VLONG_WRN_INSECURE_RNG == 200

\* ret = FromBinary(buf, bytes); nu = CHARS_TO_DIGITS(bytes); return ret;
GenBytesStore(fb, bytes) ==
    [ret |-> fb.ret, X |-> [fb.X EXCEPT !.nu = CHARS_TO_DIGITS(bytes)]]

\* ret = pRNG_f2(pRNG_ctx, buf, bytes); if (ret != 0) return ret;
GenBytesFill(v, bytes, rngRet, out) ==
    IF rngRet # 0 THEN Err(rngRet, v)
    ELSE GenBytesStore(FromBinary(v, SubSeq(out, 1, bytes), bytes), bytes)

\* X.GenRandomBytes(bytes, pRNG_f): isNull says pRNG_f is NULL, rngRet and
\* out are what the callback returns and writes; _local_prng returns 0.
\* ret is VLONG_WRN_INSECURE_RNG for a NULL pRNG_f until CHECK assigns the
\* status of Grow to it
vlong_GenRandomBytes(v, bytes, isNull, rngRet, out) ==
    IF bytes < 1 THEN Err(VLONG_ERR_BAD_ARG_1, v)
    ELSE Bind(Grow(v, CHARS_TO_DIGITS(bytes) + 1), LAMBDA g :
         GenBytesFill(g, bytes, IF isNull THEN 0 ELSE rngRet, out))

\* d[nu-1] &= (MP_MASK_DIG >> (BiD - d2)); d[nu-1] |= (1 << (d2 - 1)); and
\* for d2 = 0, d[nu-1] |= 1 << (BiD - 1)
GenBitsTop(v, d2) ==
    IF v.nu = 0 THEN v
    ELSE IF d2 > 0
    THEN [v EXCEPT !.d[v.nu] = BitOr(v.d[v.nu] % (2 ^ d2), 2 ^ (d2 - 1))]
    ELSE [v EXCEPT !.d[v.nu] = BitOr(v.d[v.nu], 2 ^ (ByteBiD - 1))]

\* X.GenRandomBits(bits, pRNG_f)
GenRandomBits(v, bits, isNull, rngRet, out) ==
    Bind(IF (bits + 7) \div 8 > 0
         THEN vlong_GenRandomBytes(v, (bits + 7) \div 8, isNull, rngRet, out)
         ELSE Ok(v), LAMBDA g :
    Ok(GenBitsTop(g, bits % ByteBiD)))

\* the bytes a generator writes, and the values a callback returns
RandBytes == {0, 90, 255}
RandReturns == {0, 77}
\* at most MaxRandom bytes are asked for
MaxRandom == 4

\* k is the number of bytes or bits asked for, rd the value the callback
\* returns, buf the bytes the generator in use writes
InitRand ==
    /\ pc = "init" /\ op = "none" /\ alias = "none"
    /\ X \in ByteReceivers
    /\ k \in 0..(8 * MaxRandom)
    /\ rd \in RandReturns
    /\ buf \in [1..MaxRandom -> RandBytes]
    /\ a = vlong_Init /\ b = vlong_Init /\ n = vlong_Init /\ r = vlong_Init
    /\ ret = 0 /\ junk = 0 /\ depth = 0 /\ gst = NoGcd

\* X.GenRandomBytes(k) and X.GenRandomBytes(k, pRNG_f); alias tells which
CallGenRandomBytes ==
    /\ pc = "init"
    /\ k <= MaxRandom
    /\ \E isNull \in BOOLEAN :
         /\ With(vlong_GenRandomBytes(X, k, isNull, rd, buf), LAMBDA c :
                 X' = c.X /\ ret' = c.ret)
         /\ Done("GenRandomBytes", IF isNull THEN "NULL" ELSE "pRNG_f")
    /\ UNCHANGED <<a, b, n, k, r, rd, junk, depth, gst, buf>>

\* X.GenRandomBits(k) and X.GenRandomBits(k, pRNG_f)
CallGenRandomBits ==
    /\ pc = "init"
    /\ \E isNull \in BOOLEAN :
         /\ With(GenRandomBits(X, k, isNull, rd, buf), LAMBDA c :
                 X' = c.X /\ ret' = c.ret)
         /\ Done("GenRandomBits", IF isNull THEN "NULL" ELSE "pRNG_f")
    /\ UNCHANGED <<a, b, n, k, r, rd, junk, depth, gst, buf>>

NextRand == CallGenRandomBytes \/ CallGenRandomBits

SpecRand == InitRand /\ [][NextRand]_vars

\* the bytes asked of the generator by the call that was made
RandAsked == IF op = "GenRandomBits" THEN (k + 7) \div 8 ELSE k

\* C27: a call that is given no callback and draws from the built-in
\* generator returns VLONG_WRN_INSECURE_RNG, and the value is produced
C27_InsecureRng ==
    (pc = "done" /\ alias = "NULL" /\ k >= 1) =>
        /\ ret = VLONG_WRN_INSECURE_RNG
        /\ X.s = MP_ZPOS
        /\ X.nu = CHARS_TO_DIGITS(RandAsked)

\* ------------------------------------------------------------ failing calls
\* operands of 1, 3 and VLONG_MAX_DIGITS digits
FailOperands ==
    {OfInt(5), OfInt(0 - 1234), OfInt(1234),
     [s |-> MP_NEG, nu |-> VLONG_MAX_DIGITS,
      d |-> [j \in 1..VLONG_MAX_DIGITS |-> j]]}

\* "12", "12G4", "G", "129"
FailTexts == {<<49, 50>>, <<49, 50, 71, 52>>, <<71>>, <<49, 50, 57>>}

\* bit counts: some leave the result within VLONG_MAX_DIGITS digits
FailShifts == {1, 9 * BiD, 11 * BiD}

\* n keeps the receiver as it is before the call; rd is the radix, one of
\* those read by the loop for the radixes other than 16.  The
\* operands vary for the arithmetic, the bit count for the shifts, the text
\* and the radix for FromString
InitFail ==
    /\ pc = "init" /\ op = "none" /\ alias = "none"
    /\ X \in Receivers \cup {OfInt(77)}
    /\ n = X
    /\ \/ /\ a \in FailOperands
          /\ b \in FailOperands \cup {vlong_Init}
          /\ k = 1 /\ rd = 7 /\ buf = <<49, 50>>
       \/ /\ a \in FailOperands
          /\ b = vlong_Init
          /\ k \in FailShifts /\ rd = 7 /\ buf = <<49, 50>>
       \/ /\ a = OfInt(5)
          /\ b = vlong_Init
          /\ k = 1 /\ rd \in {3, 7} /\ buf \in FailTexts
    /\ r = vlong_Init /\ ret = VLONG_SUCCESS /\ junk = 0 /\ depth = 0
    /\ gst = NoGcd

\* X.FromString(buf, rd)
CallFromStringText ==
    /\ pc = "init"
    /\ With(FromString(X, buf, rd), LAMBDA c : X' = c.X /\ ret' = c.ret)
    /\ Done("FromString", "none")
    /\ UNCHANGED <<a, b, n, k, r, rd, junk, depth, gst, buf>>

NextFail ==
    \/ CallFromStringText
    \/ CallShiftLeft
    \/ CallAdd
    \/ CallMul
    \/ CallDiv

SpecFail == InitFail /\ [][NextFail]_vars

\* C28: a call that returns a status other than success leaves the sign,
\* nu and the digits below nu of its receiver as they were
C28_NoPartialCommit ==
    (pc = "done" /\ ret # VLONG_SUCCESS) =>
        /\ X.s = ReceiverBefore.s
        /\ X.nu = ReceiverBefore.nu
        /\ \A j \in 1..X.nu : X.d[j] = ReceiverBefore.d[j]

\* -------------------------------------------------------------------- Xor
RECURSIVE BitXor(_, _)
BitXor(x, y) ==
    IF x = 0 THEN y
    ELSE IF y = 0 THEN x
    ELSE ((x + y) % 2) + 2 * BitXor(x \div 2, y \div 2)

\* for (i = 0; i < nmin; i++) d[i] = t1->d[i] ^ t2->d[i];
RECURSIVE XorLoop(_, _, _, _, _)
XorLoop(ds, t1, t2, i, nmin) ==
    IF i < nmin
    THEN XorLoop(Wr(ds, i, BitXor(Rd(t1, i), Rd(t2, i))), t1, t2, i + 1, nmin)
    ELSE ds

\* X.Xor(a, b): t1 is the argument of more digits, b when they have as many.
\* al names the arguments that are the receiver; with "ab" a and b are one
\* object
Xor(v, x, y, al) ==
    IF al = "ab" THEN Ok(SetZero(v))
    ELSE Bind(IF al = "none" THEN Copy(v, IF x.nu > y.nu THEN x ELSE y)
              ELSE Ok(v), LAMBDA c :
         Ok([c EXCEPT !.d = XorLoop(c.d, IF x.nu > y.nu THEN x ELSE y,
                                    IF x.nu > y.nu THEN y ELSE x, 0,
                                    Min(x.nu, y.nu))]))

\* ---------------------------------------------------- receiver as argument
\* the operands have at most AliasLimbs digits; rd is the exponent of Pow
AliasLimbs == 2

InitAlias ==
    /\ InitCommon
    /\ a \in Operands(AliasLimbs)
    /\ b \in Operands(AliasLimbs)
    /\ k = 0 /\ rd \in {0, 1, 3}
    /\ n = vlong_Init

\* X.Xor(a, b)
CallXor ==
    /\ pc = "init"
    /\ \E how \in Hows :
         /\ With(Xor(Recv(how), a, ArgB(how), how), LAMBDA c :
                 X' = c.X /\ ret' = c.ret)
         /\ Done("Xor", how)
    /\ UNCHANGED <<a, b, n, k, r, rd, junk, depth, gst, buf>>

NextAlias ==
    \/ CallAdd
    \/ CallSub
    \/ CallDivNoRem
    \/ CallMod
    \/ CallXor
    \/ CallPow

SpecAlias == InitAlias /\ [][NextAlias]_vars

\* the call that was made, with the same argument values, on a new object
\* that is none of the arguments
FreshCall ==
    IF op = "Add" THEN Add(vlong_Init, a, ArgB(alias), "none")
    ELSE IF op = "Sub" THEN Sub(vlong_Init, a, ArgB(alias), "none")
    ELSE IF op = "Mod" THEN Mod(vlong_Init, a, ArgB(alias), "none")
    ELSE IF op = "Xor" THEN Xor(vlong_Init, a, ArgB(alias), "none")
    ELSE IF op = "Pow" THEN Pow(vlong_Init, a, rd, FALSE)
    ELSE [ret |-> Div(vlong_Init, a, ArgB(alias), "none", vlong_Init, FALSE,
                      "none").ret,
          X |-> Div(vlong_Init, a, ArgB(alias), "none", vlong_Init, FALSE,
                    "none").Q]

\* C29: a call whose receiver is one of its arguments returns what the call
\* on a distinct new receiver returns, and on success leaves the same value
\* and sign in the receiver
C29_Aliasing ==
    (pc = "done" /\ alias # "none") =>
        /\ ret = FreshCall.ret
        /\ (ret = VLONG_SUCCESS) =>
               /\ Val(X) = Val(FreshCall.X)
               /\ (Val(X) # 0) => (X.s = FreshCall.X.s)

\* ---------------------------------------------------------------------------
\* The imports on receivers that already hold a number
\* ---------------------------------------------------------------------------

\* chars handed to FromBinary: {0x12}, {0x12, 0x34, 0x56}, {0, 0, 0, 0, 1}
\* and no char at all
ImportBytes == {<<18>>, <<18, 52, 86>>, <<0, 0, 0, 0, 1>>, << >>}

\* strings handed to FromBase64: "AAU=", "ARqrvM8=", "AAAA", "AA==", "AQ=="
ImportBase64 ==
    { <<65, 65, 85, 61>>, <<65, 82, 113, 114, 118, 77, 56, 61>>,
      <<65, 65, 65, 65>>, <<65, 65, 61, 61>>, <<65, 81, 61, 61>> }

\* strings handed to FromString: "12", "-12", "0", "-0", "1202"
ImportTexts ==
    {<<49, 50>>, <<45, 49, 50>>, <<48>>, <<45, 48>>, <<49, 50, 48, 50>>}

\* n keeps the receiver as it was before the call; the place tells which
\* import is about to run on buf: "bin" FromBinary(buf, rd), "b64"
\* FromBase64(buf), "init" FromString(buf, rd)
InitImport ==
    /\ op = "none" /\ alias = "none"
    /\ junk \in {0, 255}
    /\ a = vlong_Init /\ b = vlong_Init /\ r = vlong_Init
    /\ k = 0 /\ ret = 0 /\ depth = 0 /\ gst = NoGcd
    /\ \/ /\ pc = "bin"
          /\ X \in ByteReceivers
          /\ buf \in ImportBytes /\ rd = Len(buf)
       \/ /\ pc = "b64"
          /\ X \in ByteReceivers
          /\ buf \in ImportBase64 /\ rd = 0
       \/ /\ pc = "init"
          /\ X \in Receivers \cup {OfInt(77), OfInt(0 - 1234)}
          /\ buf \in ImportTexts /\ rd \in {3, 7}
    /\ n = X

NextImport ==
    \/ CallFromBinary
    \/ CallFromBase64
    \/ CallFromStringText

SpecImport == InitImport /\ [][NextImport]_vars

\* the same import on a vlong that was just constructed
ImportFresh ==
    IF op = "FromBinary" THEN FromBinary(vlong_Init, buf, rd)
    ELSE IF op = "FromBase64" THEN FromBase64(vlong_Init, buf, junk)
    ELSE FromString(vlong_Init, buf, rd)

\* C30: FromBinary, FromBase64 and FromString leave in X a value that
\* depends on the input only: the return code, the sign, the number of
\* digits and the digits are those the same call leaves in a new vlong,
\* whatever X held before
C30_ImportFresh ==
    (pc = "done") =>
        /\ ret = ImportFresh.ret
        /\ X.s = ImportFresh.X.s
        /\ X.nu = ImportFresh.X.nu
        /\ \A j \in 1..X.nu : X.d[j] = ImportFresh.X.d[j]

====
